---- MODULE Spec2Model ----
(***************************************************************************)
(* A model of the MTProto proxy front-end: the anti-replay cache, the      *)
(* per-connection handler (MTProtoProxy.handleConnection), the per-DC      *)
(* connection pool, the relay, main()'s handling of the secret, the        *)
(* Obfuscator, and the simple variant's Connection.handleConnection.       *)
(* Time is counted in whole seconds.                                       *)
(***************************************************************************)
EXTENDS Integers, Sequences, FiniteSets, TLC

VARIABLES
    now,          \* the clock read by time.Now(), in seconds since construction
    cache,        \* AntiReplayCache.cache: fingerprint -> insertion time
    freshAt,      \* history: fingerprint -> time of its last "fresh" result
    evicted,      \* history: fingerprints evicted on overflow since their last "fresh"
    lastCall,     \* history: the most recent CheckAndAdd call
    secretType,   \* config.Secret.Type
    sess,         \* per session slot: the handler's position and locals
    accepted,     \* number of connections the listener has accepted
    errorCount,   \* metrics.errorCount, by label
    metrics,      \* connectionsTotal, connectionsActive, datacenterConns
    connections,  \* MTProtoProxy.connections: the registered sessions
    socks,        \* every peer socket ever dialled, by id
    idle,         \* DCConnectionPool.connections, per DC: the channel's content
    active,       \* DCConnectionPool.active, per DC
    wire,         \* per session slot: the bytes on its two sockets during the relay
    shutdown,     \* MTProtoProxy.shutdown is closed (and the listener with it)
    boot,         \* main() and Start: the SECRET and SNI_DOMAIN read, config.Secret, what
                  \* was logged, the listener, the position in the accept loop
    obf,          \* two Obfuscators' cipher streams and the bytes passed between them
    tls,          \* one read of relayData and the records made of it
    lk            \* per goroutine: the locking operation it is in, and how far

cacheVars == <<now, cache, freshAt, evicted, lastCall>>

poolVars == <<socks, idle, active>>

\* what is settled before the listener accepts: the secret's type, the rest of
\* main()'s work, and the obfuscators this model exercises on their own
startVars == <<secretType, boot, obf, tls, lk>>

\* what the session handlers never change; only Accept touches wire
configVars == <<startVars, shutdown, wire>>

proxyVars == <<startVars, sess, accepted, errorCount, metrics, connections, wire, shutdown>>

vars == <<now, cache, freshAt, evicted, lastCall, secretType, sess, accepted,
          errorCount, metrics, connections, socks, idle, active, wire, shutdown, boot, obf,
          tls, lk>>

----------------------------------------------------------------------------
(* Bounds of the model *)

\* how many TTL periods the sampled clock covers
MaxPeriods == 1

\* AntiReplayCache.maxSize, scaled down from the 100000 of NewMTProtoProxy
maxSize == 1

\* concurrent session slots
NumSessions == 2

\* connections accepted in one run
MaxAccepts == 3

\* relay iterations counted per direction
MaxChunks == 1

\* DCConnectionPool.maxConn, scaled down from the 10 of NewMTProtoProxy
maxConn == 1

(* Program constants *)

\* 5*time.Minute, in seconds
ttl == 300

\* the sweeper's ticker period time.Minute, in seconds
SweepPeriod == 60

None == -1

\* The instants at which the clock is sampled: around every multiple of the TTL.
Times ==
    {k * ttl + d : k \in 0..MaxPeriods, d \in 0..2} \cup
    {k * ttl - 1 : k \in 1..MaxPeriods}

\* The coarser sample of the clock used with whole sessions.
SessionTimes == {0} \cup {k * ttl - 1 : k \in 1..MaxPeriods}

----------------------------------------------------------------------------
(* Client handshakes.  head is bytes 0..7 of the 64; tag and dc are the      *)
(* transport tag and dc_id that bytes 56..63 encode (what the client chose). *)

\* the bytes 0xef, 0xee, 0xdd a secret may start with
B_ef == 239

B_ee == 238

B_dd == 221

HeadEf8  == <<239, 239, 239, 239, 239, 239, 239, 239>>
HeadGet  == <<71, 69, 84, 32, 47, 32, 72, 84>>
HeadEe   == <<238, 238, 238, 238, 238, 238, 238, 238>>
HeadZero == <<0, 0, 0, 0, 0, 0, 0, 0>>
HeadTls  == <<22, 3, 3, 0, 59, 1, 0, 0>>
HeadDd   == <<221, 221, 221, 221, 17, 34, 51, 68>>
HeadRnd  == <<164, 27, 205, 9, 113, 86, 240, 2>>

TagAbridged     == "efefefef"
TagIntermediate == "eeeeeeee"
TagPadded       == "dddddddd"
TagFull         == "00000000"
TagOther        == "12345678"

Hs(head, tag, dc) == [head |-> head, tag |-> tag, dc |-> dc]

Handshakes ==
    { Hs(HeadRnd, TagPadded, 2),
      Hs(HeadRnd, TagOther, 42),
      Hs(HeadEf8, TagAbridged, 0),
      Hs(HeadGet, TagOther, 1),
      Hs(HeadEe, TagIntermediate, 5),
      Hs(HeadZero, TagFull, 4),
      Hs(HeadTls, TagPadded, 5),
      Hs(HeadDd, TagPadded, -3) }

\* The handshakes the clients of the session-level specification send.
SessionHandshakes ==
    { Hs(HeadRnd, TagPadded, 2), Hs(HeadRnd, TagOther, 42), Hs(HeadEf8, TagAbridged, 0),
      Hs(HeadTls, TagPadded, 5) }

\* The handshakes the cache-level specification calls CheckAndAdd with.
CacheHandshakes ==
    { Hs(HeadRnd, TagPadded, 2), Hs(HeadRnd, TagOther, 42), Hs(HeadEf8, TagAbridged, 0) }

\* hex(sha256(data)[:16]): modelled as collision-free, one key per handshake.
Fingerprint(data) == <<"fp", data.head, data.tag, data.dc>>

----------------------------------------------------------------------------
(* Anti-replay cache *)

EmptyCache == [k \in {} |-> 0]

Put(c, key, t) == [k \in (DOMAIN c) \cup {key} |-> IF k = key THEN t ELSE c[k]]

Remove(c, keys) == [k \in (DOMAIN c) \ keys |-> c[k]]

\* (mutation: the TTL test is forgotten, any present entry counts as a duplicate)
IsRecentDuplicate_NoTtl(c, t, key) == key \in DOMAIN c

\* (mutation: the duplicate test never succeeds)
IsRecentDuplicate_Never(c, t, key) == FALSE

\* CheckAndAdd's test for a recent duplicate: present and now.Sub(timestamp) < ttl
IsRecentDuplicate(c, t, key) == key \in DOMAIN c /\ t - c[key] < ttl

\* (mutation: the sweeper compares against its own period instead of the TTL)
Expired_Period(c, t, key) == t - c[key] > SweepPeriod

\* cleanup's test: now.Sub(timestamp) > ttl
Expired(c, t, key) == t - c[key] > ttl

\* (mutation: the scan takes any entry of least timestamp, the new one too)
EvictCandidates_NotStrict(c, t) == {k \in DOMAIN c : \A j \in DOMAIN c : c[k] <= c[j]}

\* The keys the overflow loop may end on: it starts from oldest = now and moves
\* to every strictly older entry it meets, so it ends on an entry with the
\* least timestamp, provided that is before now; map order picks among ties.
EvictCandidates(c, t) ==
    {k \in DOMAIN c : c[k] < t /\ \A j \in DOMAIN c : c[k] <= c[j]}

\* The overflow test: len(c.cache) > c.maxSize
Overflows(c) == Cardinality(DOMAIN c) > maxSize

\* history: the record of a CheckAndAdd(data) call made now that returned ret
\* and evicted victims
CallRecord(data, ret, victims) ==
    LET key == Fingerprint(data)
        c1  == Put(cache, key, now)
        c2  == IF ret THEN Remove(c1, victims) ELSE cache
    IN  [key |-> key, at |-> now, ret |-> ret,
         prevFresh |-> IF key \in DOMAIN freshAt THEN freshAt[key] ELSE None,
         prevTs |-> IF key \in DOMAIN cache THEN cache[key] ELSE None,
         prevEvicted |-> key \in evicted,
         stored |-> IF key \in DOMAIN c2 THEN c2[key] ELSE None,
         victims |-> victims,
         sizeBefore |-> Cardinality(DOMAIN cache),
         victimTs |-> {c1[k] : k \in victims},
         olderLeft |-> \E k \in victims, j \in DOMAIN c2 : c2[j] < c1[k]]

\* What the overflow step of an insertion into c (giving c1) may delete.
Victims(c1, t) ==
    IF Overflows(c1) /\ EvictCandidates(c1, t) # {}
    THEN {{k} : k \in EvictCandidates(c1, t)}
    ELSE {{}}

\* CheckAndAdd(data) returning ret, as one step under the cache mutex; victims
\* is what its overflow step deleted.
CheckAndAdd(data, ret, victims) ==
    LET key == Fingerprint(data)
        c1  == Put(cache, key, now)
    IN  IF IsRecentDuplicate(cache, now, key)
        THEN /\ ret = FALSE
             /\ victims = {}
             /\ UNCHANGED <<cache, freshAt, evicted>>
        ELSE /\ ret = TRUE
             /\ victims \in Victims(c1, now)
             /\ cache' = Remove(c1, victims)
             /\ evicted' = (evicted \ {key}) \cup victims
             /\ freshAt' = Put(freshAt, key, now)

\* One firing of the cleanup ticker: delete every expired entry.
cleanup ==
    /\ now >= SweepPeriod
    /\ cache' = Remove(cache, {k \in DOMAIN cache : Expired(cache, now, k)})
    /\ UNCHANGED <<now, freshAt, evicted>>

\* The clock advances to a later instant of the sample T.
Tick(T) ==
    /\ \E t \in T : t > now /\ now' = t
    /\ UNCHANGED <<cache, freshAt, evicted>>

NoCall ==
    [key |-> <<>>, at |-> None, ret |-> FALSE, prevFresh |-> None, prevTs |-> None,
     prevEvicted |-> FALSE, stored |-> None, victims |-> {}, sizeBefore |-> 0,
     victimTs |-> {}, olderLeft |-> FALSE]

----------------------------------------------------------------------------
(* Datacenters and configuration *)

DCs == 1..5

Dc(id, loc, prio) == [ID |-> id, hasIPv4 |-> TRUE, hasIPv6 |-> TRUE, Location |-> loc, Priority |-> prio]

TelegramDatacenters ==
    [d \in DCs |->
        CASE d = 1 -> Dc(1, "MIA", 3)
          [] d = 2 -> Dc(2, "AMS", 2)
          [] d = 3 -> Dc(3, "MIA", 3)
          [] d = 4 -> Dc(4, "AMS", 2)
          [] d = 5 -> Dc(5, "SIN", 1)]

SecretTypes == {"SecretSimple", "SecretSecured", "SecretFakeTLS"}

ErrorLabels ==
    {"handshake_read", "handshake_process", "replay_attack", "datacenter_connect",
     "telegram_handshake"}

\* binary.LittleEndian.Uint32(handshake[0:4]), as <<high 16 bits, low 16 bits>>
LittleEndian32(head) == <<head[3] + 256 * head[4], head[1] + 256 * head[2]>>

\* binary.BigEndian.Uint16(handshake[1:3])
BigEndian16(head) == 256 * head[2] + head[3]

\* 0xef
TransportAbridged == 239

\* 0xeeeeeeee
TransportIntermediate == <<61166, 61166>>

\* 0xdddddddd
TransportPadded == <<56797, 56797>>

TLSHandshakeType == 22

TLSVersion12 == 771

\* processHandshake: the transport it reports, what it will send to Telegram
\* (the client's own 64 bytes, a handshake made by createMTProtoHandshake, or
\* the client's bytes run through the obfuscator), and whether it failed.
processHandshake(n, hs, stype) ==
    IF n < 64
    THEN [err |-> TRUE, transport |-> "none", processed |-> "none"]
    ELSE IF hs.head[1] = TLSHandshakeType /\ BigEndian16(hs.head) = TLSVersion12
    THEN [err |-> FALSE, transport |-> "TransportTypePadded", processed |-> "generated"]
    ELSE IF hs.head[1] = TransportAbridged
    THEN [err |-> FALSE, transport |-> "TransportTypeAbridged", processed |-> "client"]
    ELSE IF LittleEndian32(hs.head) = TransportIntermediate
    THEN [err |-> FALSE, transport |-> "TransportTypeIntermediate", processed |-> "client"]
    ELSE IF LittleEndian32(hs.head) = TransportPadded
    THEN [err |-> FALSE, transport |-> "TransportTypePadded", processed |-> "client"]
    ELSE [err |-> FALSE, transport |-> "TransportTypePadded",
          processed |-> IF stype \in {"SecretFakeTLS", "SecretSecured"}
                        THEN "deobfuscated" ELSE "client"]

\* createMTProtoHandshake: the 64 bytes it may return.  The first four are
\* the little-endian TransportPadded; rand.Read fills the other sixty, the
\* tag and the DC id in bytes 56..64 among them (two values stand for each).
createMTProtoHandshake ==
    {Hs(HeadDd, tag, dc) : tag \in {TagPadded, TagOther}, dc \in {5, 42}}

\* main sets config.PreferIPv6 to true; nothing reads it
PreferIPv6 == TRUE

\* chooseBestDatacenter: the loop keeps the first DC of strictly lower priority
\* it meets, in map order, so it ends on a DC of the least priority.
chooseBestDatacenter ==
    {d \in DCs : \A e \in DCs : TelegramDatacenters[d].Priority <= TelegramDatacenters[e].Priority}

----------------------------------------------------------------------------
(* main(): the secret it parses or generates, and the URL that Start logs.  *)
(* Byte strings are sequences of 0..255; text in hexadecimal is a sequence  *)
(* of digits 0..15, and 16 stands for a character that is no digit.         *)

\* Secret.Key is a [16]byte
KeyLen == 16

\* the secrets tried carry up to this many bytes after the key
MaxExtra == 2

\* the longest SNI host tried
MaxHostLen == 255

\* hex.EncodeToString
hexEncode(bytes) ==
    [i \in 1..2 * Len(bytes) |->
        IF i % 2 = 1 THEN bytes[(i + 1) \div 2] \div 16 ELSE bytes[i \div 2] % 16]

\* hex.DecodeString fails on an odd length and on a character that is no digit
hexValid(str) == Len(str) % 2 = 0 /\ \A i \in 1..Len(str) : str[i] \in 0..15

hexDecode(str) == [i \in 1..Len(str) \div 2 |-> 16 * str[2 * i - 1] + str[2 * i]]

\* Secret{Type: SecretSimple}
NewSecret == [Type |-> "SecretSimple", Key |-> [i \in 1..KeyLen |-> 0], Host |-> <<>>]

\* (mutation: the host is taken from the byte after the prefix on)
HostOf_FromKey(data) == SubSeq(data, 2, Len(data))

\* string(data[17:]) when there is a byte after the key
HostOf(data) == IF Len(data) > KeyLen + 1 THEN SubSeq(data, KeyLen + 2, Len(data)) ELSE <<>>

\* parseSecret of part_001
parseSecret(secretStr) ==
    IF Len(secretStr) < 2 * KeyLen \/ ~hexValid(secretStr)
    THEN [err |-> TRUE, secret |-> NewSecret]
    ELSE LET data == hexDecode(secretStr) IN
         IF Len(data) < KeyLen
         THEN [err |-> TRUE, secret |-> NewSecret]
         ELSE IF Len(data) > KeyLen /\ data[1] = B_ee
         THEN [err |-> FALSE,
               secret |-> [Type |-> "SecretFakeTLS", Key |-> SubSeq(data, 2, KeyLen + 1),
                           Host |-> HostOf(data)]]
         ELSE IF Len(data) > KeyLen /\ data[1] = B_dd
         THEN [err |-> FALSE,
               secret |-> [NewSecret EXCEPT !.Type = "SecretSecured",
                                            !.Key = SubSeq(data, 2, KeyLen + 1)]]
         ELSE [err |-> FALSE, secret |-> [NewSecret EXCEPT !.Key = SubSeq(data, 1, KeyLen)]]

\* generateSecret, with the key that rand.Read delivered
generateSecret(sniDomain, key) == [Type |-> "SecretFakeTLS", Key |-> key, Host |-> sniDomain]

\* "ee%x%x" of the key and the host: the wire form main logs for a generated secret
GeneratedWire(secret) == hexEncode(<<B_ee>>) \o hexEncode(secret.Key) \o hexEncode(secret.Host)

\* Start: secretHex, as it goes into the tg://proxy URL
secretHex(secret, SNIDomain) ==
    IF secret.Type = "SecretFakeTLS"
    THEN hexEncode(<<B_ee>>) \o hexEncode(secret.Key) \o hexEncode(SNIDomain)
    ELSE hexEncode(secret.Key)

\* n bytes that differ from place to place: from + 1, from + 2, ...
Filler(n, from) == [i \in 1..n |-> from + i]

\* the keys rand.Read may deliver, two of them
Keys == {Filler(KeyLen, 0), Filler(KeyLen, 100)}

\* the hosts tried: none, short ones, one that starts like a secret, a longest one
Hosts == {<<>>, <<103>>, <<B_ee, 46>>, [i \in 1..MaxHostLen |-> 97]}

\* the decoded secrets tried: each first byte, each length up to prefix + key + MaxExtra
SecretBytes ==
    {<<>>} \cup {<<f>> \o Filler(n, 0) : f \in {B_ee, B_dd, B_ef}, n \in 0..KeyLen + MaxExtra}

\* what SECRET may hold: nothing, the hexadecimal of those, and two strings
\* that are no hexadecimal
SecretStrings ==
    {hexEncode(b) : b \in SecretBytes}
        \cup {Tail(hexEncode(<<B_ee>> \o Filler(KeyLen, 0))),
              <<16>> \o Tail(hexEncode(<<B_ee>> \o Filler(KeyLen, 0)))}

\* main() once the proxy listens, for the specifications that start there
Booted ==
    [pc |-> "listening", secretStr |-> <<>>, SNIDomain |-> <<>>, secret |-> NewSecret,
     logged |-> <<>>, printed |-> <<>>, listener |-> "open"]

\* no obfuscator is under examination
NoObf == [on |-> FALSE]

\* no read is under examination
NoTls == [on |-> FALSE]

\* the goroutines whose locking is followed
Threads == {"handler1", "handler2", "pump1", "stats", "sweeper"}

\* between two operations
IdleThread == [prog |-> <<>>, i |-> 1]

\* no goroutine is inside an operation
NoLocks == [t \in Threads |-> IdleThread]

Started == boot = Booted /\ obf = NoObf /\ tls = NoTls /\ lk = NoLocks

\* main: config.Secret is generated when SECRET is empty and parsed otherwise;
\* a secret that does not parse ends the program (log.Fatalf).
MainSecret ==
    /\ boot.pc = "start"
    /\ IF boot.secretStr = <<>>
       THEN \E key \in Keys :
            LET secret == generateSecret(boot.SNIDomain, key) IN
            /\ boot' = [boot EXCEPT !.pc = "configured", !.secret = secret,
                                    !.logged = GeneratedWire(secret)]
            /\ secretType' = secret.Type
       ELSE LET r == parseSecret(boot.secretStr) IN
            /\ boot' = [boot EXCEPT !.pc = IF r.err THEN "fatal" ELSE "configured",
                                    !.secret = r.secret]
            /\ secretType' = r.secret.Type
    /\ UNCHANGED <<cacheVars, poolVars, obf, tls, lk, sess, accepted, errorCount, metrics,
                   connections, wire, shutdown>>

\* Start, up to the line that logs the Telegram URL.
StartPrint ==
    /\ boot.pc = "configured"
    /\ boot' = [boot EXCEPT !.pc = "listening", !.listener = "open",
                            !.printed = secretHex(boot.secret, boot.SNIDomain)]
    /\ UNCHANGED <<cacheVars, poolVars, secretType, obf, tls, lk, sess, accepted, errorCount,
                   metrics, connections, wire, shutdown>>

----------------------------------------------------------------------------
(* Sessions: MTProtoProxy.handleConnection *)

Sessions == 1..NumSessions

\* What a client does: the handshake it sends and how many of its 64 bytes
\* arrive before it closes or the 30 s deadline passes.
ClientInputs(H) ==
    {[hs |-> h, n |-> 64] : h \in H} \cup
    {[hs |-> Hs(HeadRnd, TagPadded, 2), n |-> 63]}

NoInput == [hs |-> Hs(HeadZero, TagFull, 0), n |-> None]

\* history: what the session's CheckAndAdd call returned, and whether the same
\* handshake had been reported fresh less than a TTL before, and whether that
\* entry had been evicted on overflow since
NoWitness == [made |-> FALSE, ret |-> FALSE, within |-> FALSE, prevEvicted |-> FALSE]

WitnessOf(c) ==
    [made |-> TRUE, ret |-> c.ret,
     within |-> c.prevFresh # None /\ c.at - c.prevFresh < ttl,
     prevEvicted |-> c.prevEvicted]

\* history: no dial made by the session's last GetConnection
NoDial == [dc |-> 0, tried |-> <<>>, answers |-> <<>>, ok |-> FALSE]

IdleSession ==
    [pc |-> "idle", in |-> NoInput, transport |-> "none", processed |-> "none",
     call |-> NoWitness, dcID |-> 0, conn |-> 0, probeErr |-> "none", dialled |-> NoDial,
     c2t |-> "none", t2c |-> "none",
     bytesOut |-> 0, bytesIn |-> 0, errs |-> <<>>, log |-> <<>>]

\* the two pumps of relayConnections
Dirs == {"c2t", "t2c"}

\* The sockets of a session before anything was sent on them: per direction,
\* how much of the source's stream has arrived (sent), what waits in the
\* receive buffer (inbuf), what relayData wrote to the destination (out); and
\* the history of the writes that succeeded and of the I/O errors.
IdleWire ==
    [sent |-> [d \in Dirs |-> 0], inbuf |-> [d \in Dirs |-> <<>>],
     out |-> [d \in Dirs |-> <<>>], okWrites |-> 0, ioErr |-> FALSE]

Bump(f, k) == [f EXCEPT ![k] = @ + 1]

Drop(f, k) == [f EXCEPT ![k] = @ - 1]

\* The session's record once handleConnection has returned with the error
\* labels errs counted: its locals are gone, its history is kept.
Exited(r, errs, events) ==
    [IdleSession EXCEPT !.pc = "closed", !.in = [NoInput EXCEPT !.n = r.in.n],
                        !.call = r.call, !.errs = errs, !.log = r.log \o events]

\* (mutation: the deferred connectionsActive.Dec is missing)
ExitMetrics_NoDec == metrics

\* the deferred calls every exit of handleConnection runs: connectionsActive.Dec
\* and clientConn.Close
ExitMetrics == [metrics EXCEPT !.active = @ - 1]

\* Start's accept loop: go p.handleConnection(conn), up to its first read.
Accept(s) ==
    /\ ~shutdown
    /\ sess[s].pc \in {"idle", "closed"}
    /\ accepted < MaxAccepts
    /\ sess' = [sess EXCEPT ![s] = [IdleSession EXCEPT !.pc = "read"]]
    /\ accepted' = accepted + 1
    /\ metrics' = [metrics EXCEPT !.total = @ + 1, !.active = @ + 1]
    /\ wire' = [wire EXCEPT ![s] = IdleWire]
    /\ UNCHANGED <<cacheVars, poolVars, startVars, shutdown, errorCount, connections>>

\* (mutation: a short read is not treated as an error)
ShortRead_Never(n) == FALSE

\* io.ReadFull fills the 64-byte buffer or fails
ShortRead(n) == n < 64

IsTLSHello(hs) == hs.head[1] = TLSHandshakeType /\ BigEndian16(hs.head) = TLSVersion12

\* (mutation: a TLS handshake record is answered with a handshake record)
ClientReply_ServerHello(hs) == IF IsTLSHello(hs) THEN <<TLSHandshakeType>> ELSE <<>>

\* what handleConnection writes to the client socket between its read of the
\* handshake and the relay: nothing, whatever the handshake
ClientReply(hs) == <<>>

\* io.ReadFull(clientConn, handshake) under the 30 s deadline, then
\* processHandshake on the bytes read.
ReadHandshake(s) ==
    /\ sess[s].pc = "read"
    /\ \E in \in ClientInputs(SessionHandshakes) :
        LET r == [sess[s] EXCEPT !.in = in]
            p == processHandshake(in.n, in.hs, secretType)
        IN
        /\ IF ShortRead(in.n)
           THEN /\ errorCount' = Bump(errorCount, "handshake_read")
                /\ sess' = [sess EXCEPT ![s] = Exited(r, <<"handshake_read">>, <<"read_fail">>)]
                /\ metrics' = ExitMetrics
           ELSE IF p.err
           THEN /\ errorCount' = Bump(errorCount, "handshake_process")
                /\ sess' = [sess EXCEPT ![s] =
                               Exited(r, <<"handshake_process">>, <<"read", "derive_fail">>)]
                /\ metrics' = ExitMetrics
           ELSE /\ sess' = [sess EXCEPT ![s] =
                               [r EXCEPT !.pc = "witness", !.transport = p.transport,
                                         !.processed = p.processed,
                                         !.log = @ \o <<"read", "derive">>]]
                /\ UNCHANGED <<errorCount, metrics>>
        /\ wire' = [wire EXCEPT ![s].out["t2c"] =
                        IF ShortRead(in.n) THEN @ ELSE @ \o ClientReply(in.hs)]
    /\ UNCHANGED <<cacheVars, startVars, shutdown, poolVars, accepted, connections>>

\* main sets config.AntiReplayEnabled to true
AntiReplayEnabled == TRUE

\* The anti-replay check on the handshake already processed, then
\* chooseBestDatacenter.
Witness(s) ==
    LET r == sess[s] IN
    /\ r.pc = "witness"
    /\ IF AntiReplayEnabled
       THEN \E ret \in BOOLEAN,
               victims \in SUBSET ((DOMAIN cache) \cup {Fingerprint(r.in.hs)}) :
            LET w == WitnessOf(CallRecord(r.in.hs, ret, victims)) IN
            /\ CheckAndAdd(r.in.hs, ret, victims)
            /\ IF ret
               THEN /\ \E dc \in chooseBestDatacenter :
                        sess' = [sess EXCEPT ![s] =
                                    [r EXCEPT !.pc = "getconn", !.call = w, !.dcID = dc,
                                              !.log = Append(@, "witness_fresh")]]
                    /\ UNCHANGED <<errorCount, metrics>>
               ELSE /\ errorCount' = Bump(errorCount, "replay_attack")
                    /\ sess' = [sess EXCEPT ![s] =
                                    Exited([r EXCEPT !.call = w], <<"replay_attack">>,
                                           <<"witness_duplicate">>)]
                    /\ metrics' = ExitMetrics
       ELSE /\ \E dc \in chooseBestDatacenter :
                sess' = [sess EXCEPT ![s] = [r EXCEPT !.pc = "getconn", !.dcID = dc]]
            /\ UNCHANGED <<errorCount, metrics, cache, freshAt, evicted>>
    /\ UNCHANGED <<configVars, now, lastCall, poolVars, accepted, connections>>

\* What a socket's record becomes when it is closed.
ClosedSock(k) == [dc |-> k.dc, open |-> FALSE, written |-> FALSE, probed |-> 0]

\* (mutation: IPv4 is dialled whatever the IPv6 dial answered, and its answer
\* is the one that counts)
DialAttempts_Both(dc, v6ok, v4ok) ==
    [dc |-> dc, tried |-> <<"tcp6", "tcp4">>, answers |-> <<v6ok, v4ok>>, ok |-> v4ok]

\* createDCConnection's dials for a DC, given what each dial would answer: the
\* networks it tries, in order, and whether it ends with a connection.
DialAttempts(dc, v6ok, v4ok) ==
    LET tryV6 == TelegramDatacenters[dc].hasIPv6
        tryV4 == IF tryV6 THEN ~v6ok /\ TelegramDatacenters[dc].hasIPv4
                 ELSE TelegramDatacenters[dc].hasIPv4
    IN  [dc |-> dc,
         tried |-> (IF tryV6 THEN <<"tcp6">> ELSE <<>>) \o (IF tryV4 THEN <<"tcp4">> ELSE <<>>),
         answers |-> (IF tryV6 THEN <<v6ok>> ELSE <<>>) \o (IF tryV4 THEN <<v4ok>> ELSE <<>>),
         ok |-> (tryV6 /\ v6ok) \/ (tryV4 /\ v4ok)]

\* createDCConnection: dial IPv6, then IPv4 if that failed.
createDCConnection(s) ==
    LET dc == sess[s].dcID IN
    \E a \in {DialAttempts(dc, v6ok, v4ok) : v6ok \in BOOLEAN, v4ok \in BOOLEAN} :
        /\ IF a.ok
           THEN /\ socks' = Append(socks, [dc |-> dc, open |-> TRUE, written |-> FALSE,
                                           probed |-> 0])
                /\ active' = Bump(active, dc)
                /\ sess' = [sess EXCEPT ![s].pc = "sendhs",
                                ![s].conn = Len(socks) + 1,
                                ![s].probeErr = "none",
                                ![s].dialled = a,
                                ![s].log = Append(@, "checkout")]
                /\ UNCHANGED <<errorCount, metrics>>
           ELSE /\ errorCount' = Bump(errorCount, "datacenter_connect")
                /\ sess' = [sess EXCEPT ![s] =
                                [Exited(sess[s], <<"datacenter_connect">>, <<"checkout_fail">>)
                                    EXCEPT !.dialled = a]]
                /\ metrics' = ExitMetrics
                /\ UNCHANGED <<socks, active>>
        /\ UNCHANGED idle

\* (mutation: the receive leaves the socket in the channel)
Dequeue_Keep(q) == q

\* what is left in the channel after conn := <-pool.connections
Dequeue(q) == Tail(q)

\* GetConnection: an error for a DC without a pool; otherwise take an idle
\* socket if the channel holds one and probe it with a 1 ms one-byte read;
\* with an empty channel, dial.
GetConnection(s) ==
    LET dc == sess[s].dcID IN
    /\ sess[s].pc = "getconn"
    /\ IF dc \notin DOMAIN idle
       THEN /\ errorCount' = Bump(errorCount, "datacenter_connect")
            /\ sess' = [sess EXCEPT ![s] =
                            Exited(sess[s], <<"datacenter_connect">>, <<"checkout_fail">>)]
            /\ metrics' = ExitMetrics
            /\ UNCHANGED <<socks, idle, active>>
       ELSE IF idle[dc] # <<>>
       THEN LET c == Head(idle[dc]) IN
            /\ idle' = [idle EXCEPT ![dc] = Dequeue(@)]
            /\ \E probe \in {"byte", "timeout", "eof"} :
                IF probe = "byte"
                THEN /\ socks' = [socks EXCEPT ![c].probed = @ + 1]
                     /\ sess' = [sess EXCEPT ![s].pc = "sendhs", ![s].conn = c,
                                    ![s].log = Append(@, "checkout")]
                ELSE /\ socks' = [socks EXCEPT ![c] = ClosedSock(@)]
                     /\ sess' = [sess EXCEPT ![s].pc = "dial", ![s].probeErr = probe]
            /\ UNCHANGED <<active, errorCount, metrics>>
       ELSE createDCConnection(s)
    /\ UNCHANGED <<cacheVars, configVars, accepted, connections>>

\* GetConnection's dial after it has closed a dead pooled socket.
DialAfterProbe(s) ==
    /\ sess[s].pc = "dial"
    /\ createDCConnection(s)
    /\ UNCHANGED <<cacheVars, configVars, accepted, connections>>

\* (mutation: the channel takes a socket whatever it holds)
HasRoom_Always(q) == TRUE

\* (mutation: the channel never takes a socket)
HasRoom_Never(q) == FALSE

\* the send into pool.connections succeeds: the channel of capacity maxConn is
\* not full
HasRoom(q) == Len(q) < maxConn

\* ReturnConnection(dcID, conn): close for a DC without a pool; otherwise back
\* into the channel if it has room, else close.
ReturnConnection(dc, c) ==
    IF dc \notin DOMAIN idle
    THEN /\ socks' = [socks EXCEPT ![c] = ClosedSock(@)]
         /\ UNCHANGED <<idle, active>>
    ELSE IF HasRoom(idle[dc])
    THEN /\ idle' = [idle EXCEPT ![dc] = Append(@, c)]
         /\ UNCHANGED <<socks, active>>
    ELSE /\ socks' = [socks EXCEPT ![c] = ClosedSock(@)]
         /\ active' = Drop(active, dc)
         /\ UNCHANGED idle

\* The session's record once the relay starts: the handshake buffers are dead,
\* the ProxyConnection holds the sockets, the DC, the transport and the counters.
Relaying(r) ==
    [IdleSession EXCEPT !.pc = "relay", !.in = [NoInput EXCEPT !.n = r.in.n],
                        !.transport = r.transport, !.dcID = r.dcID, !.conn = r.conn,
                        !.c2t = "run", !.t2c = "run",
                        !.log = Append(r.log, "peer_handshake")]

\* telegramConn.Write(processed), then the registration of the session.
SendHandshake(s) ==
    /\ sess[s].pc = "sendhs"
    /\ \E ok \in BOOLEAN :
        IF ok
        THEN /\ socks' = [socks EXCEPT ![sess[s].conn].written = TRUE]
             /\ sess' = [sess EXCEPT ![s] = Relaying(sess[s])]
             /\ connections' = connections \cup {s}
             /\ metrics' = [metrics EXCEPT !.dcConns = Bump(@, sess[s].dcID)]
             /\ UNCHANGED <<idle, active, errorCount>>
        ELSE /\ errorCount' = Bump(errorCount, "telegram_handshake")
             /\ ReturnConnection(sess[s].dcID, sess[s].conn)
             /\ sess' = [sess EXCEPT ![s] =
                            Exited(sess[s], <<"telegram_handshake">>,
                                   <<"peer_handshake_fail", "return">>)]
             /\ metrics' = ExitMetrics
             /\ UNCHANGED connections
    /\ UNCHANGED <<cacheVars, configVars, accepted>>

\* One iteration of relayData client -> Telegram: read, write, count.
RelayClientToTelegram(s) ==
    /\ sess[s].pc = "relay" /\ sess[s].c2t = "run"
    /\ sess[s].bytesOut < MaxChunks
    /\ sess' = [sess EXCEPT ![s].bytesOut = @ + 1]
    /\ socks' = [socks EXCEPT ![sess[s].conn].written = TRUE]
    /\ UNCHANGED <<cacheVars, configVars, idle, active, accepted, errorCount, metrics,
                   connections>>

\* One iteration of relayData Telegram -> client.
RelayTelegramToClient(s) ==
    /\ sess[s].pc = "relay" /\ sess[s].t2c = "run"
    /\ sess[s].bytesIn < MaxChunks
    /\ sess' = [sess EXCEPT ![s].bytesIn = @ + 1]
    /\ UNCHANGED <<cacheVars, configVars, poolVars, accepted, errorCount, metrics,
                   connections>>

\* A pump leaves its loop: its read or its write failed (EOF, error, timeout).
PumpStop(s) ==
    /\ sess[s].pc = "relay"
    /\ \/ /\ sess[s].c2t = "run"
          /\ sess' = [sess EXCEPT ![s].c2t = "stop"]
       \/ /\ sess[s].t2c = "run"
          /\ sess' = [sess EXCEPT ![s].t2c = "stop"]
    /\ UNCHANGED <<cacheVars, configVars, poolVars, accepted, errorCount, metrics,
                   connections>>

\* wg.Wait returns once both pumps have stopped; the deferred calls then run.
Finish(s) ==
    /\ sess[s].pc = "relay" /\ sess[s].c2t = "stop" /\ sess[s].t2c = "stop"
    /\ ReturnConnection(sess[s].dcID, sess[s].conn)
    /\ connections' = connections \ {s}
    /\ metrics' = [metrics EXCEPT !.dcConns = Drop(@, sess[s].dcID), !.active = @ - 1]
    /\ sess' = [sess EXCEPT ![s] = Exited(sess[s], <<>>, <<"relay_end", "return">>)]
    /\ UNCHANGED <<cacheVars, configVars, accepted, errorCount>>

\* NewMTProxy's fields other than the secret
ProxyFields ==
    /\ sess = [s \in Sessions |-> IdleSession]
    /\ accepted = 0
    /\ errorCount = [l \in ErrorLabels |-> 0]
    /\ metrics = [total |-> 0, active |-> 0, dcConns |-> [d \in DCs |-> 0]]
    /\ connections = {}
    /\ socks = <<>>
    /\ idle = [d \in DCs |-> <<>>]
    /\ active = [d \in DCs |-> 0]
    /\ wire = [s \in Sessions |-> IdleWire]
    /\ shutdown = FALSE

\* generateSecret makes a FakeTLS secret
ProxyInit == secretType = "SecretFakeTLS" /\ ProxyFields /\ Started

CacheInit ==
    /\ now = 0
    /\ cache = EmptyCache
    /\ freshAt = EmptyCache
    /\ evicted = {}
    /\ lastCall = NoCall

Init == CacheInit /\ ProxyInit

Sweep == cleanup /\ UNCHANGED <<lastCall, poolVars, proxyVars>>

Advance(T) == Tick(T) /\ UNCHANGED <<lastCall, poolVars, proxyVars>>

Next ==
    \/ \E s \in Sessions :
        \/ Accept(s)
        \/ ReadHandshake(s)
        \/ Witness(s)
        \/ GetConnection(s)
        \/ DialAfterProbe(s)
        \/ SendHandshake(s)
        \/ RelayClientToTelegram(s)
        \/ RelayTelegramToClient(s)
        \/ PumpStop(s)
        \/ Finish(s)
    \/ Sweep
    \/ Advance(SessionTimes)

Spec == Init /\ [][Next]_vars

\* A caller witnesses a handshake.
CacheCall ==
    /\ \E data \in CacheHandshakes, ret \in BOOLEAN :
       \E victims \in SUBSET ((DOMAIN cache) \cup {Fingerprint(data)}) :
        /\ CheckAndAdd(data, ret, victims)
        /\ lastCall' = CallRecord(data, ret, victims)
    /\ UNCHANGED <<now, poolVars, proxyVars>>

CacheNext == CacheCall \/ Sweep \/ Advance(Times)

SpecCache == Init /\ [][CacheNext]_vars

----------------------------------------------------------------------------
(* The simple variant: Connection.handleConnection of main.go.  It shares the *)
(* session slots, the sockets and the relay steps; it has no cache, no pool.  *)

\* Secret.Type is the first byte of the secret: 0xef, 0xdd, 0xee or anything else
SimpleSecretTypes == {B_ef, B_dd, B_ee, 0}

\* the status labels of connectionsTotal
SimpleStatuses ==
    {"crypto_error", "read_error", "unknown_protocol", "protocol_error", "telegram_error",
     "telegram_write_error", "success"}

\* connectToTelegram's order of preference
SimpleDcOrder == <<5, 2, 4, 1, 3>>

\* handleFakeTLS's scan: the offsets of the head at which the little-endian
\* word is ObfuscatedTag (0xdddddddd)
MarkerOffsets(head) ==
    {i \in 1..(Len(head) - 4) :
        <<head[i + 2] + 256 * head[i + 3], head[i] + 256 * head[i + 1]>> = TransportPadded}

\* handleSimpleObfuscated, handleSecuredObfuscated, handleFakeTLS: what is sent
\* to Telegram, "nil" when the handler gives up, "unknown" for the default case
SimpleTelegramData(stype, n, hs) ==
    IF stype \notin {B_ef, B_dd, B_ee} THEN "unknown"
    ELSE IF n < 64 THEN "nil"
    ELSE IF stype = B_ef THEN "stripped"
    ELSE IF stype = B_dd THEN "decrypted"
    ELSE IF MarkerOffsets(hs.head) # {} THEN "decrypted_from_marker"
    ELSE "decrypted"

SimpleAccept(s) ==
    /\ sess[s].pc \in {"idle", "closed"}
    /\ accepted < MaxAccepts
    /\ sess' = [sess EXCEPT ![s] = [IdleSession EXCEPT !.pc = "read"]]
    /\ accepted' = accepted + 1
    /\ metrics' = [metrics EXCEPT !.active = @ + 1]
    /\ UNCHANGED <<cacheVars, configVars, poolVars, errorCount, connections>>

SimpleExit(s, r, status, events) ==
    /\ errorCount' = Bump(errorCount, status)
    /\ sess' = [sess EXCEPT ![s] = Exited(r, <<status>>, events)]
    /\ metrics' = ExitMetrics

\* initCrypto, one client.Read of up to BufferSize bytes, and the switch on
\* the secret's type.
SimpleRead(s) ==
    /\ sess[s].pc = "read"
    /\ \E cryptoOk \in BOOLEAN, readOk \in BOOLEAN, in \in ClientInputs(Handshakes) :
        LET r    == [sess[s] EXCEPT !.in = [NoInput EXCEPT !.n = in.n]]
            data == SimpleTelegramData(secretType, in.n, in.hs)
        IN
        IF secretType \in {B_dd, B_ee} /\ ~cryptoOk
        THEN SimpleExit(s, sess[s], "crypto_error", <<>>)
        ELSE IF ~readOk
        THEN SimpleExit(s, sess[s], "read_error", <<"read_fail">>)
        ELSE IF data = "unknown"
        THEN SimpleExit(s, r, "unknown_protocol", <<"read">>)
        ELSE IF data = "nil"
        THEN SimpleExit(s, r, "protocol_error", <<"read", "derive_fail">>)
        ELSE /\ sess' = [sess EXCEPT ![s] =
                            [r EXCEPT !.pc = "connect", !.processed = data,
                                      !.log = <<"read", "derive">>]]
             /\ UNCHANGED <<errorCount, metrics>>
    /\ UNCHANGED <<cacheVars, configVars, poolVars, accepted, connections>>

\* (mutation: the loop gives up at the first dial that fails)
connectToTelegram_NoRetry(ans) ==
    [dc |-> IF ans[SimpleDcOrder[1]] THEN SimpleDcOrder[1] ELSE 0,
     tried |-> <<SimpleDcOrder[1]>>, answers |-> <<ans[SimpleDcOrder[1]]>>,
     ok |-> ans[SimpleDcOrder[1]]]

\* connectToTelegram's loop from the k-th DC on, ans[dc] being what a dial of
\* dc answers: the DCs dialled, and the one kept
RECURSIVE DialLoop(_, _)
DialLoop(k, ans) ==
    IF k > Len(SimpleDcOrder)
    THEN [dc |-> 0, tried |-> SimpleDcOrder,
          answers |-> [i \in 1..Len(SimpleDcOrder) |-> FALSE], ok |-> FALSE]
    ELSE IF ans[SimpleDcOrder[k]]
    THEN [dc |-> SimpleDcOrder[k], tried |-> SubSeq(SimpleDcOrder, 1, k),
          answers |-> [i \in 1..k |-> i = k], ok |-> TRUE]
    ELSE DialLoop(k + 1, ans)

connectToTelegram(ans) == DialLoop(1, ans)

\* handleConnection's call of connectToTelegram: the session keeps the first
\* DC that answers, or ends with "telegram_error".
SimpleConnect(s) ==
    /\ sess[s].pc = "connect"
    /\ \E ans \in [DCs -> BOOLEAN] :
        LET a == connectToTelegram(ans) IN
        IF ~a.ok
        THEN /\ errorCount' = Bump(errorCount, "telegram_error")
             /\ sess' = [sess EXCEPT ![s] =
                             [Exited(sess[s], <<"telegram_error">>, <<"checkout_fail">>)
                                 EXCEPT !.dialled = a]]
             /\ metrics' = ExitMetrics
             /\ UNCHANGED socks
        ELSE /\ socks' = Append(socks, [dc |-> a.dc, open |-> TRUE,
                                        written |-> FALSE, probed |-> 0])
             /\ sess' = [sess EXCEPT ![s].pc = "sendhs", ![s].dcID = a.dc,
                                     ![s].conn = Len(socks) + 1,
                                     ![s].dialled = a,
                                     ![s].log = Append(@, "checkout")]
             /\ UNCHANGED <<errorCount, metrics>>
    /\ UNCHANGED <<cacheVars, configVars, idle, active, accepted, connections>>

\* telegram.Write(telegramData), then the "success" count; the deferred
\* telegram.Close was skipped at entry (telegram was nil), so no exit closes it.
SimpleWrite(s) ==
    /\ sess[s].pc = "sendhs"
    /\ \E ok \in BOOLEAN :
        IF ok
        THEN /\ socks' = [socks EXCEPT ![sess[s].conn].written = TRUE]
             /\ errorCount' = Bump(errorCount, "success")
             /\ sess' = [sess EXCEPT ![s] = Relaying(sess[s])]
             /\ UNCHANGED metrics
        ELSE /\ SimpleExit(s, sess[s], "telegram_write_error", <<"peer_handshake_fail">>)
             /\ UNCHANGED socks
    /\ UNCHANGED <<cacheVars, configVars, idle, active, accepted, connections>>

\* relay's wg.Wait returns; the deferred client.Close and Dec run.
SimpleFinish(s) ==
    /\ sess[s].pc = "relay" /\ sess[s].c2t = "stop" /\ sess[s].t2c = "stop"
    /\ sess' = [sess EXCEPT ![s] = Exited(sess[s], <<>>, <<"relay_end">>)]
    /\ metrics' = ExitMetrics
    /\ UNCHANGED <<cacheVars, configVars, poolVars, accepted, errorCount, connections>>

SimpleInit ==
    /\ CacheInit
    /\ secretType \in SimpleSecretTypes
    /\ Started
    /\ sess = [s \in Sessions |-> IdleSession]
    /\ accepted = 0
    /\ errorCount = [l \in SimpleStatuses |-> 0]
    /\ metrics = [total |-> 0, active |-> 0, dcConns |-> [d \in DCs |-> 0]]
    /\ connections = {}
    /\ socks = <<>>
    /\ idle = [d \in DCs |-> <<>>]
    /\ active = [d \in DCs |-> 0]
    /\ wire = [s \in Sessions |-> IdleWire]
    /\ shutdown = FALSE

SimpleNext ==
    \E s \in Sessions :
        \/ SimpleAccept(s)
        \/ SimpleRead(s)
        \/ SimpleConnect(s)
        \/ SimpleWrite(s)
        \/ RelayClientToTelegram(s)
        \/ RelayTelegramToClient(s)
        \/ PumpStop(s)
        \/ SimpleFinish(s)

SpecSimple == SimpleInit /\ [][SimpleNext]_vars

----------------------------------------------------------------------------
(* The relay in detail: the bytes that arrive on the two sockets of a session *)
(* and what relayData does with each read.                                    *)

TLSApplicationData == 23

\* the session slots the detailed relay runs in
RelaySessions == {1}

\* wrapInTLS: type, version, uint16 length (both big-endian), then the data
wrapInTLS(data) ==
    <<TLSApplicationData, TLSVersion12 \div 256, TLSVersion12 % 256,
      (Len(data) \div 256) % 256, Len(data) % 256>> \o data

\* unwrapFromTLS: the payload of the first record when data starts with a
\* complete ApplicationData record, and data itself otherwise
unwrapFromTLS(data) ==
    IF Len(data) >= 5 /\ data[1] = TLSApplicationData
    THEN LET recordLen == 256 * data[4] + data[5] IN
         IF Len(data) >= 5 + recordLen THEN SubSeq(data, 6, 5 + recordLen) ELSE data
    ELSE data

\* The payload each side sends during the relay.
ClientPayload == <<<<101>>, <<102>>>>

TelegramPayload == <<201, 202>>

\* What the client puts on its socket: one ApplicationData record per payload
\* with a FakeTLS secret, the payload bytes themselves otherwise.
ClientStream(stype) ==
    IF stype = "SecretFakeTLS"
    THEN wrapInTLS(ClientPayload[1]) \o wrapInTLS(ClientPayload[2])
    ELSE ClientPayload[1] \o ClientPayload[2]

Stream(d) == IF d = "c2t" THEN ClientStream(secretType) ELSE TelegramPayload

\* The places at which an arrival may end: any byte of a short stream; of the
\* framed stream the middle of a header, a record's end, the middle of the next
\* header, the end.
ArrivalPoints(d) ==
    IF Len(Stream(d)) <= 2 THEN 1..Len(Stream(d))
    ELSE {p \in 1..Len(Stream(d)) : p % 3 = 0}

\* the model records at most this many bytes per direction and counts no further
MaxTrack == Len(ClientStream("SecretFakeTLS"))

Cap(seq) == IF Len(seq) > MaxTrack THEN SubSeq(seq, 1, MaxTrack) ELSE seq

Saturate(n, max) == IF n > max THEN max ELSE n

PumpRuns(s, d) ==
    sess[s].pc = "relay" /\ (IF d = "c2t" THEN sess[s].c2t ELSE sess[s].t2c) = "run"

PumpStopped(r, d) == IF d = "c2t" THEN [r EXCEPT !.c2t = "stop"] ELSE [r EXCEPT !.t2c = "stop"]

\* The next bytes of the source's stream reach the proxy's socket.
Arrives(s, d) ==
    /\ PumpRuns(s, d)
    /\ \E p \in ArrivalPoints(d) :
        /\ p > wire[s].sent[d]
        /\ wire' = [wire EXCEPT ![s].sent[d] = p,
                                ![s].inbuf[d] = @ \o SubSeq(Stream(d), wire[s].sent[d] + 1, p)]
    /\ UNCHANGED <<cacheVars, poolVars, startVars, shutdown, sess, accepted, errorCount,
                   metrics, connections>>

\* a burst of bytes as long as the model records
Burst == [i \in 1..MaxTrack |-> 0]

\* The source sends one more burst, whatever it sent before.
KeepsSending(s, d) ==
    /\ PumpRuns(s, d)
    /\ wire[s].inbuf[d] = <<>>
    /\ wire' = [wire EXCEPT ![s].inbuf[d] = Burst]
    /\ UNCHANGED <<cacheVars, poolVars, startVars, shutdown, sess, accepted, errorCount,
                   metrics, connections>>

\* (mutation: the counters are updated before the write's result is looked at)
Counted_Always(ok, n) == n

\* what an iteration adds to bytesOut or bytesIn: len(data) after a write
\* that succeeded, nothing after one that failed (the loop has been left)
Counted(ok, n) == IF ok THEN n ELSE 0

\* what relayData writes for the bytes it read
Relayed(d, data) ==
    IF secretType # "SecretFakeTLS" THEN data
    ELSE IF d = "t2c" THEN wrapInTLS(data)
    ELSE unwrapFromTLS(data)

\* One iteration of relayData that read data: transform, write, count.
relayData(s, d) ==
    /\ PumpRuns(s, d)
    /\ wire[s].inbuf[d] # <<>>
    /\ \E ok \in BOOLEAN :
        LET data == Relayed(d, wire[s].inbuf[d])
            n    == Counted(ok, Len(data))
            r    == IF d = "c2t"
                    THEN [sess[s] EXCEPT !.bytesOut = Saturate(@ + n, MaxTrack)]
                    ELSE [sess[s] EXCEPT !.bytesIn = Saturate(@ + n, MaxTrack)]
        IN
        /\ sess' = [sess EXCEPT ![s] = IF ok THEN r ELSE PumpStopped(r, d)]
        /\ wire' = [wire EXCEPT ![s].inbuf[d] = <<>>,
                                ![s].out[d] = IF ok THEN Cap(@ \o data) ELSE @,
                                ![s].okWrites = IF ok THEN Saturate(@ + Len(data), 2 * MaxTrack)
                                                ELSE @,
                                ![s].ioErr = @ \/ ~ok]
        /\ socks' = IF ok /\ d = "c2t"
                    THEN [socks EXCEPT ![sess[s].conn].written = TRUE] ELSE socks
    /\ UNCHANGED <<cacheVars, idle, active, startVars, shutdown, accepted, errorCount,
                   metrics, connections>>

\* An iteration whose Read fails: the source closed (EOF), the connection
\* broke, or nothing came for the 5 minutes of the read deadline.
PumpReadEnds(s, d) ==
    /\ PumpRuns(s, d)
    /\ wire[s].inbuf[d] = <<>>
    /\ \E ev \in {"eof", "error", "timeout"} :
        wire' = [wire EXCEPT ![s].ioErr = @ \/ ev # "eof"]
    /\ sess' = [sess EXCEPT ![s] = PumpStopped(sess[s], d)]
    /\ UNCHANGED <<cacheVars, poolVars, startVars, shutdown, accepted, errorCount,
                   metrics, connections>>

\* Stop: close(p.shutdown), listener.Close().
Stop ==
    /\ ~shutdown
    /\ shutdown' = TRUE
    /\ boot' = [boot EXCEPT !.listener = "closed"]
    /\ UNCHANGED <<cacheVars, poolVars, secretType, obf, tls, lk, sess, accepted, errorCount,
                   metrics, connections, wire>>

\* the steps of handleConnection other than the pumps'
HandlerStep(s) ==
    \/ ReadHandshake(s)
    \/ Witness(s)
    \/ GetConnection(s)
    \/ DialAfterProbe(s)
    \/ SendHandshake(s)
    \/ Finish(s)

RelayInit ==
    CacheInit /\ secretType \in {"SecretFakeTLS", "SecretSimple"} /\ ProxyFields /\ Started

RelayNext ==
    \E s \in RelaySessions :
        \/ Accept(s)
        \/ HandlerStep(s)
        \/ \E d \in Dirs : Arrives(s, d) \/ relayData(s, d) \/ PumpReadEnds(s, d)

SpecRelay == RelayInit /\ [][RelayNext]_vars

LiveNext ==
    \/ \E s \in RelaySessions :
        \/ Accept(s)
        \/ HandlerStep(s)
        \/ \E d \in Dirs : KeepsSending(s, d) \/ relayData(s, d) \/ PumpReadEnds(s, d)
    \/ Stop

\* Every goroutine gets to run: a handler takes its next step, a pump with
\* bytes waiting relays them, a pump with nothing to read for 5 minutes times
\* out.  Nothing obliges the two remote ends to close or to fall silent.
SpecRelayFair ==
    /\ RelayInit
    /\ [][LiveNext]_vars
    /\ \A s \in RelaySessions :
        /\ WF_vars(HandlerStep(s))
        /\ \A d \in Dirs : WF_vars(relayData(s, d)) /\ WF_vars(PumpReadEnds(s, d))

----------------------------------------------------------------------------
(* The relay of a FakeTLS session whose client sends one record that is     *)
(* longer than a record may be.                                             *)

\* the most payload a record may carry: 16 KiB, scaled to the streams here
MaxRecordPayload == 1

\* an ApplicationData record that declares and carries one byte too many
OversizedRecord == wrapInTLS([i \in 1..MaxRecordPayload + 1 |-> 103])

\* The next bytes of the client's oversized record reach the proxy's socket:
\* up to the middle of the header, up to the header's end, or all of it.
ArrivesOversized(s) ==
    /\ PumpRuns(s, "c2t")
    /\ \E p \in {3, 5, Len(OversizedRecord)} :
        /\ p > wire[s].sent["c2t"]
        /\ wire' = [wire EXCEPT ![s].sent["c2t"] = p,
                                ![s].inbuf["c2t"] =
                                    @ \o SubSeq(OversizedRecord, wire[s].sent["c2t"] + 1, p)]
    /\ UNCHANGED <<cacheVars, poolVars, startVars, shutdown, sess, accepted, errorCount,
                   metrics, connections>>

FrameNext ==
    \E s \in RelaySessions :
        \/ Accept(s)
        \/ HandlerStep(s)
        \/ ArrivesOversized(s)
        \/ \E d \in Dirs : relayData(s, d) \/ PumpReadEnds(s, d)

SpecFrame == Init /\ [][FrameNext]_vars

----------------------------------------------------------------------------
(* Start's accept loop and Stop, statement by statement: the two run in      *)
(* different goroutines and share the shutdown channel and the listener.     *)

\* Start is somewhere in its for loop
InAcceptLoop == boot.pc \in {"listening", "accepting", "accepted"}

FreeSlots == {s \in Sessions : sess[s].pc \in {"idle", "closed"}}

\* the select: a closed shutdown channel is ready and ends Start with nil,
\* otherwise the default case goes on to listener.Accept
StartSelect ==
    /\ boot.pc = "listening"
    /\ boot' = [boot EXCEPT !.pc = IF shutdown THEN "returned" ELSE "accepting"]
    /\ UNCHANGED <<cacheVars, poolVars, secretType, obf, tls, lk, sess, accepted, errorCount,
                   metrics, connections, wire, shutdown>>

\* listener.Accept returns: a connection of a client that reached the open
\* listener, or an error (always so once the listener is closed), which is
\* logged before the loop continues
StartAccept ==
    /\ boot.pc = "accepting"
    /\ \E ok \in BOOLEAN :
        IF ok
        THEN /\ boot.listener = "open" /\ accepted < MaxAccepts /\ FreeSlots # {}
             /\ boot' = [boot EXCEPT !.pc = "accepted"]
             /\ accepted' = accepted + 1
        ELSE /\ boot' = [boot EXCEPT !.pc = "listening"]
             /\ UNCHANGED accepted
    /\ UNCHANGED <<cacheVars, poolVars, secretType, obf, tls, lk, sess, errorCount, metrics,
                   connections, wire, shutdown>>

\* go p.handleConnection(conn), up to the session's first read
StartSpawn(s) ==
    /\ boot.pc = "accepted"
    /\ s \in FreeSlots /\ \A t \in FreeSlots : s <= t
    /\ boot' = [boot EXCEPT !.pc = "listening"]
    /\ sess' = [sess EXCEPT ![s] = [IdleSession EXCEPT !.pc = "read"]]
    /\ metrics' = [metrics EXCEPT !.total = @ + 1, !.active = @ + 1]
    /\ wire' = [wire EXCEPT ![s] = IdleWire]
    /\ UNCHANGED <<cacheVars, poolVars, secretType, obf, tls, lk, accepted, errorCount,
                   connections, shutdown>>

\* Stop's first statement: close(p.shutdown)
StopCloseShutdown ==
    /\ InAcceptLoop /\ ~shutdown
    /\ shutdown' = TRUE
    /\ UNCHANGED <<cacheVars, poolVars, startVars, sess, accepted, errorCount, metrics,
                   connections, wire>>

\* Stop's second statement: return p.listener.Close()
StopCloseListener ==
    /\ shutdown /\ boot.listener = "open"
    /\ boot' = [boot EXCEPT !.listener = "closed"]
    /\ UNCHANGED <<cacheVars, poolVars, secretType, obf, tls, lk, sess, accepted, errorCount,
                   metrics, connections, wire, shutdown>>

StopNext ==
    \/ StartSelect
    \/ StartAccept
    \/ StopCloseShutdown
    \/ StopCloseListener
    \/ \E s \in Sessions :
        \/ StartSpawn(s)
        \/ ReadHandshake(s)

SpecStop == Init /\ [][StopNext]_vars

----------------------------------------------------------------------------
(* main() on its own, from the environment it reads to the URL it logs *)

BootInit ==
    /\ CacheInit
    /\ ProxyFields
    /\ secretType = NewSecret.Type
    /\ obf = NoObf
    /\ tls = NoTls
    /\ lk = NoLocks
    /\ \E str \in SecretStrings, h \in Hosts :
        boot = [Booted EXCEPT !.pc = "start", !.secretStr = str, !.SNIDomain = h,
                              !.listener = "nil"]

BootNext == MainSecret \/ StartPrint

SpecBoot == BootInit /\ [][BootNext]_vars

----------------------------------------------------------------------------
(* The Obfuscator on its own: one obfuscator transforms a text chunk by     *)
(* chunk and a second one, made from the same secret and initialization     *)
(* data, transforms the result.                                             *)

\* the texts tried are at most this long
MaxPlain == 3

\* the exclusive or of two numbers of n bits
RECURSIVE XorBits(_, _, _)
XorBits(a, b, n) ==
    IF n = 0 THEN 0 ELSE ((a + b) % 2) + 2 * XorBits(a \div 2, b \div 2, n - 1)

\* The byte at place i of the ChaCha20 keystream for the key and nonce that
\* NewObfuscator derives from seed (a secret and its initData): some fixed
\* function of the two.
KeyStream(seed, i) == ((37 * seed) + (101 * i) + 11) % 256

\* the secrets and initialization data tried, as the key material they give
Seeds == {1, 2}

\* NewObfuscator: encoder and decoder get the same key (keyMaterial[8:40]) and
\* the same nonce (keyMaterial[40:52]) and both start at the keystream's start
NewObfuscator(seed) ==
    [encoder |-> [seed |-> seed, pos |-> 0], decoder |-> [seed |-> seed, pos |-> 0]]

\* (mutation: the stream does not move on after a call)
NextPos_Rewind(pos, n) == pos

\* where a cipher.Stream stands after XORKeyStream of n bytes
NextPos(pos, n) == pos + n

\* cipher.Stream.XORKeyStream(dst, src): dst and the stream afterwards
XORKeyStream(stream, src) ==
    [dst    |-> [i \in 1..Len(src) |-> XorBits(src[i], KeyStream(stream.seed, stream.pos + i), 8)],
     stream |-> [stream EXCEPT !.pos = NextPos(@, Len(src))]]

\* Obfuscator.Encrypt runs the encoder, Obfuscator.Decrypt the decoder
Encrypt(o, data) ==
    LET r == XORKeyStream(o.encoder, data) IN [out |-> r.dst, o |-> [o EXCEPT !.encoder = r.stream]]

Decrypt(o, data) ==
    LET r == XORKeyStream(o.decoder, data) IN [out |-> r.dst, o |-> [o EXCEPT !.decoder = r.stream]]

Apply(op, o, data) == IF op = "Encrypt" THEN Encrypt(o, data) ELSE Decrypt(o, data)

Inverse(op) == IF op = "Encrypt" THEN "Decrypt" ELSE "Encrypt"

\* the texts tried: every sequence of up to MaxPlain of three bytes
Plains == UNION {[1..n -> {0, 90, 255}] : n \in 0..MaxPlain}

\* The first obfuscator is handed the next bytes of the text, in a call of any
\* length.
ObfFirst ==
    /\ obf.on
    /\ \E n \in 1..(Len(obf.x) - obf.fed) :
        LET r == Apply(obf.op, obf.a, SubSeq(obf.x, obf.fed + 1, obf.fed + n)) IN
        obf' = [obf EXCEPT !.a = r.o, !.fed = @ + n, !.mid = @ \o r.out]
    /\ UNCHANGED <<cacheVars, poolVars, secretType, boot, tls, lk, sess, accepted, errorCount,
                   metrics, connections, wire, shutdown>>

\* The second obfuscator is handed the next bytes of what the first one
\* returned, in a call of any length, and runs the opposite operation.
ObfSecond ==
    /\ obf.on
    /\ \E n \in 1..Len(obf.mid) :
        LET r == Apply(Inverse(obf.op), obf.b, SubSeq(obf.mid, 1, n)) IN
        obf' = [obf EXCEPT !.b = r.o, !.mid = SubSeq(@, n + 1, Len(@)),
                           !.got = @ \o r.out]
    /\ UNCHANGED <<cacheVars, poolVars, secretType, boot, tls, lk, sess, accepted, errorCount,
                   metrics, connections, wire, shutdown>>

ObfInit ==
    /\ CacheInit
    /\ ProxyFields
    /\ secretType = "SecretFakeTLS"
    /\ boot = Booted
    /\ tls = NoTls
    /\ lk = NoLocks
    /\ \E seed \in Seeds, x \in Plains, op \in {"Encrypt", "Decrypt"} :
        obf = [on |-> TRUE, a |-> NewObfuscator(seed), b |-> NewObfuscator(seed),
               op |-> op, x |-> x, fed |-> 0, mid |-> <<>>, got |-> <<>>]

ObfNext == ObfFirst \/ ObfSecond

SpecObf == ObfInit /\ [][ObfNext]_vars

----------------------------------------------------------------------------
(* The pool on its own: callers of GetConnection and ReturnConnection with *)
(* any DC id, one without a pool included.                                 *)

PoolDcs == {5, 6}

\* A caller is about to call GetConnection(dc).
PoolCaller(s) ==
    /\ sess[s].pc \in {"idle", "closed"}
    /\ accepted < MaxAccepts
    /\ \E dc \in PoolDcs :
        sess' = [sess EXCEPT ![s] = [IdleSession EXCEPT !.pc = "getconn", !.dcID = dc]]
    /\ accepted' = accepted + 1
    /\ metrics' = [metrics EXCEPT !.total = @ + 1, !.active = @ + 1]
    /\ UNCHANGED <<cacheVars, configVars, poolVars, errorCount, connections>>

\* The caller is done with its socket and is about to call
\* ReturnConnection(dc, conn).
PoolUse(s) ==
    /\ sess[s].pc = "sendhs"
    /\ \E dc \in PoolDcs : sess' = [sess EXCEPT ![s].pc = "return", ![s].dcID = dc]
    /\ UNCHANGED <<cacheVars, configVars, poolVars, accepted, errorCount, metrics,
                   connections>>

PoolReturn(s) ==
    /\ sess[s].pc = "return"
    /\ ReturnConnection(sess[s].dcID, sess[s].conn)
    /\ sess' = [sess EXCEPT ![s] = Exited(sess[s], <<>>, <<"return">>)]
    /\ metrics' = ExitMetrics
    /\ UNCHANGED <<cacheVars, configVars, accepted, errorCount, connections>>

PoolNext ==
    \E s \in Sessions :
        \/ PoolCaller(s)
        \/ GetConnection(s)
        \/ DialAfterProbe(s)
        \/ PoolUse(s)
        \/ PoolReturn(s)

SpecPool == Init /\ [][PoolNext]_vars

----------------------------------------------------------------------------
(* Claim about the dial, checked under SpecPool *)

\* the dial a session's GetConnection made, if it made one
Dialled(s) == sess[s].dialled # NoDial

FirstNetwork(dc) ==
    IF PreferIPv6 /\ TelegramDatacenters[dc].hasIPv6 THEN "tcp6" ELSE "tcp4"

DialRule(s) ==
    LET d == sess[s].dialled IN
    /\ Len(d.tried) \in {1, 2}
    /\ Len(d.answers) = Len(d.tried)
    /\ d.tried[1] = FirstNetwork(d.dc)
    /\ FirstNetwork(d.dc) = "tcp4" => d.tried = <<"tcp4">>
    /\ Len(d.tried) = 2 => (d.tried = <<"tcp6", "tcp4">> /\ ~d.answers[1])
    /\ d.ok <=> (\E i \in 1..Len(d.answers) : d.answers[i])
    /\ IF d.ok
       THEN sess[s].pc \in {"sendhs", "return"} /\ sess[s].conn \in 1..Len(socks)
       ELSE sess[s].pc = "closed" /\ sess[s].errs = <<"datacenter_connect">>

DialStep(s) == sess'[s].dialled # sess[s].dialled /\ Dialled(s)'

\* C32: a dial on a pool miss tries IPv6 first when it is preferred and the DC
\* has an IPv6 address, otherwise IPv4 only; IPv4 follows IPv6 only after the
\* IPv6 dial failed; the dial is an error exactly when every attempted address
\* failed; and the step that dials leaves every idle queue as it was.
C32_DialOrder ==
    /\ [](\A s \in Sessions : Dialled(s) => DialRule(s))
    /\ [][\A s \in Sessions : DialStep(s) => idle' = idle]_vars

C32_FellBackToIPv4 ==
    \E s \in Sessions :
        /\ sess[s].pc = "sendhs"
        /\ sess[s].dialled.tried = <<"tcp6", "tcp4">>
        /\ sess[s].dialled.answers = <<FALSE, TRUE>>
        /\ sess[s].probeErr = "none"
        /\ socks[sess[s].conn].open

----------------------------------------------------------------------------
(* One read of relayData on its own: a read of the peer's socket is wrapped  *)
(* into a record for the client, and the record is unwrapped again as the    *)
(* other direction would do.                                                 *)

\* BufferSize, the length of relayData's buffer: 64 * 1024
BufferSize == 65536

\* every read of at most this many bytes is tried
SmallReads == 20

\* The lengths a read may have that are tried: the short ones, those around a
\* change of the length's high byte, and the longest two.
ReadSizes == (1..SmallReads) \cup {255, 256, 257, BufferSize - 1, BufferSize}

\* the first byte of the data read: any byte, or the ApplicationData type
FirstBytes == {0, TLSApplicationData}

\* src.Read(buffer) returning n bytes that start with b
ReadData(n, b) == [i \in 1..n |-> (b + i - 1) % 256]

\* relayData, telegram_to_client with a FakeTLS secret: data = wrapInTLS(data)
WrapRead ==
    /\ tls.on /\ tls.stage = "read"
    /\ tls' = [tls EXCEPT !.stage = "wrapped", !.wrapped = wrapInTLS(tls.data)]
    /\ UNCHANGED <<cacheVars, poolVars, secretType, boot, obf, lk, sess, accepted, errorCount,
                   metrics, connections, wire, shutdown>>

\* relayData, client_to_telegram, given that record: data = unwrapFromTLS(data)
UnwrapRecord ==
    /\ tls.on /\ tls.stage = "wrapped"
    /\ tls' = [tls EXCEPT !.stage = "unwrapped", !.unwrapped = unwrapFromTLS(tls.wrapped)]
    /\ UNCHANGED <<cacheVars, poolVars, secretType, boot, obf, lk, sess, accepted, errorCount,
                   metrics, connections, wire, shutdown>>

WrapInit ==
    /\ CacheInit
    /\ ProxyFields
    /\ secretType = "SecretFakeTLS"
    /\ boot = Booted
    /\ obf = NoObf
    /\ lk = NoLocks
    /\ \E n \in ReadSizes, b \in FirstBytes :
        tls = [on |-> TRUE, stage |-> "read", data |-> ReadData(n, b),
               wrapped |-> <<>>, unwrapped |-> <<>>]

WrapNext == WrapRead \/ UnwrapRecord

SpecWrap == WrapInit /\ [][WrapNext]_vars

\* the length a record's header declares: bytes 3 and 4, big-endian
DeclaredLength(rec) == 256 * rec[4] + rec[5]

\* C36 (as stated): a read of n bytes, 1 <= n <= BufferSize, is wrapped into
\* 5 + n bytes whose declared length is n, and for n < BufferSize unwrapping
\* the record gives the bytes read.
C36_WrapKeepsLength ==
    (tls.on /\ tls.stage # "read") =>
        /\ Len(tls.data) \in 1..BufferSize
        /\ Len(tls.wrapped) = 5 + Len(tls.data)
        /\ DeclaredLength(tls.wrapped) = Len(tls.data)
        /\ (tls.stage = "unwrapped" /\ Len(tls.data) < BufferSize) =>
               tls.unwrapped = tls.data

----------------------------------------------------------------------------
(* The mutexes on their own.  Every operation that locks is the sequence of  *)
(* its Lock, RLock, Unlock, RUnlock calls and of its socket operations       *)
(* ("io"); goroutines run these sequences interleaved.                       *)

\* MTProtoProxy.connectionsMux, the ProxyConnection.mutex of two sessions,
\* AntiReplayCache.mutex, ConnectionPool.mutex, a DCConnectionPool.mutex
Mutexes == {"connectionsMux", "conn1", "conn2", "cache", "pools", "dc"}

Conns == {"conn1", "conn2"}

\* CheckAndAdd: c.mutex.Lock(), defer c.mutex.Unlock()
CheckAndAddLocks == <<<<"Lock", "cache">>, <<"Unlock", "cache">>>>

\* cleanup, one tick
cleanupLocks == <<<<"Lock", "cache">>, <<"Unlock", "cache">>>>

\* handleConnection's registration, and its deferred deregistration
RegisterLocks == <<<<"Lock", "connectionsMux">>, <<"Unlock", "connectionsMux">>>>

\* (mutation: the counters are updated while the registry is read, under the
\* session's mutex)
relayDataLocks_Registry(c) ==
    <<<<"io", "read">>, <<"io", "write">>, <<"Lock", c>>, <<"RLock", "connectionsMux">>,
      <<"RUnlock", "connectionsMux">>, <<"Unlock", c>>>>

\* relayData, one iteration: read, write, then the counters under the mutex
relayDataLocks(c) ==
    <<<<"io", "read">>, <<"io", "write">>, <<"Lock", c>>, <<"Unlock", c>>>>

\* GetStats when the registry holds the sessions cs, ranged over in this order
RECURSIVE GetStatsLoop(_)
GetStatsLoop(cs) ==
    IF cs = <<>> THEN <<>>
    ELSE <<<<"RLock", Head(cs)>>, <<"RUnlock", Head(cs)>>>> \o GetStatsLoop(Tail(cs))

GetStatsLocks(cs) ==
    <<<<"RLock", "connectionsMux">>>> \o GetStatsLoop(cs) \o <<<<"RUnlock", "connectionsMux">>>>

\* the pool lookup that opens GetConnection, createDCConnection, ReturnConnection
LookupLocks == <<<<"RLock", "pools">>, <<"RUnlock", "pools">>>>

\* createDCConnection: lookup, dial, active++ under the DC pool's mutex
createDCConnectionLocks ==
    LookupLocks \o <<<<"io", "dial">>, <<"Lock", "dc">>, <<"Unlock", "dc">>>>

\* GetConnection: the socket taken from the channel answers the probe, or
\* there is a dial (after the probe and close of a dead socket, which take no
\* lock)
GetConnectionLocks ==
    {LookupLocks \o <<<<"io", "probe">>>>,
     LookupLocks \o createDCConnectionLocks}

\* ReturnConnection: the channel takes the socket, or it is full
ReturnConnectionLocks ==
    {LookupLocks,
     LookupLocks \o <<<<"io", "close">>, <<"Lock", "dc">>, <<"Unlock", "dc">>>>}

\* what each goroutine may do
Ops(t) ==
    CASE t \in {"handler1", "handler2"} ->
             {CheckAndAddLocks, RegisterLocks} \cup GetConnectionLocks \cup ReturnConnectionLocks
      [] t = "pump1" -> {relayDataLocks("conn1")}
      [] t = "stats" -> {GetStatsLocks(cs) : cs \in {<<>>, <<"conn1">>, <<"conn2">>,
                                                     <<"conn1", "conn2">>, <<"conn2", "conn1">>}}
      [] t = "sweeper" -> {cleanupLocks}

Busy(t) == lk[t].prog # <<>>

NextCall(t) == lk[t].prog[lk[t].i]

\* the mutexes a goroutine holds after the first n calls of prog, with the mode
RECURSIVE HeldAfter(_, _)
HeldAfter(prog, n) ==
    IF n = 0 THEN {}
    ELSE LET c == prog[n]
             h == HeldAfter(prog, n - 1)
         IN  IF c[1] = "Lock" THEN h \cup {<<"W", c[2]>>}
             ELSE IF c[1] = "RLock" THEN h \cup {<<"R", c[2]>>}
             ELSE IF c[1] = "Unlock" THEN h \ {<<"W", c[2]>>}
             ELSE IF c[1] = "RUnlock" THEN h \ {<<"R", c[2]>>}
             ELSE h

Held(t) == HeldAfter(lk[t].prog, lk[t].i - 1)

Writers(m) == {t \in Threads : <<"W", m>> \in Held(t)}

Readers(m) == {t \in Threads : <<"R", m>> \in Held(t)}

\* the goroutines inside Lock(m), waiting for the mutex
PendingWriters(m) == {t \in Threads : Busy(t) /\ NextCall(t) = <<"Lock", m>>}

\* sync.RWMutex: the goroutines a call waits for.  Lock waits for the writer
\* and for every reader; RLock waits for the writer and, so that writers are
\* not starved, for every goroutine already inside Lock.
WaitsFor(t) ==
    LET c == NextCall(t) IN
    IF c[1] = "Lock" THEN Writers(c[2]) \cup Readers(c[2])
    ELSE IF c[1] = "RLock" THEN Writers(c[2]) \cup PendingWriters(c[2])
    ELSE {}

Blocked(t) == Busy(t) /\ WaitsFor(t) # {}

\* a goroutine enters one of its operations
StartOp(t) ==
    /\ ~Busy(t)
    /\ \E prog \in Ops(t) : lk' = [lk EXCEPT ![t] = [prog |-> prog, i |-> 1]]
    /\ UNCHANGED <<cacheVars, poolVars, secretType, boot, obf, tls, sess, accepted,
                   errorCount, metrics, connections, wire, shutdown>>

\* a goroutine's next call returns
StepOp(t) ==
    /\ Busy(t) /\ ~Blocked(t)
    /\ lk' = [lk EXCEPT ![t] = IF lk[t].i = Len(lk[t].prog) THEN IdleThread
                                ELSE [@ EXCEPT !.i = @ + 1]]
    /\ UNCHANGED <<cacheVars, poolVars, secretType, boot, obf, tls, sess, accepted,
                   errorCount, metrics, connections, wire, shutdown>>

LockNext == \E t \in Threads : StartOp(t) \/ StepOp(t)

SpecLocks == Init /\ [][LockNext]_vars

\* goroutines none of which can ever go on: each waits for another of them
Deadlocked(S) == S # {} /\ \A t \in S : Blocked(t) /\ WaitsFor(t) \cap S # {}

\* the order in which mutexes are taken while another is held: the registry's
\* before a session's
LockRank(m) == IF m = "connectionsMux" THEN 1 ELSE IF m \in Conns THEN 2 ELSE 3

Acquires(t) == Busy(t) /\ NextCall(t)[1] \in {"Lock", "RLock"}

\* C37: no set of goroutines is deadlocked; a mutex is requested while another
\* is held only in one order (a session's mutex under the registry's, nothing
\* else nested); and no mutex is held at a socket read, write, dial or close.
C37_NoDeadlock ==
    /\ \A S \in SUBSET Threads : ~Deadlocked(S)
    /\ \A t \in Threads : \A h \in Held(t) :
            /\ Acquires(t) =>
                   (LockRank(h[2]) = 1 /\ LockRank(NextCall(t)[2]) = 2 /\ h[1] = "R")
            /\ ~(Busy(t) /\ NextCall(t)[1] = "io")

\* C37 witness: GetStats holds the registry's and a session's mutex for
\* reading while that session's pump and a registering handler wait.
C37_StatsHoldsBoth ==
    /\ Held("stats") = {<<"R", "connectionsMux">>, <<"R", "conn1">>}
    /\ Blocked("pump1") /\ NextCall("pump1") = <<"Lock", "conn1">>
    /\ Blocked("handler1") /\ NextCall("handler1") = <<"Lock", "connectionsMux">>
    /\ Busy("sweeper") /\ Held("sweeper") = {<<"W", "cache">>}
    /\ Blocked("handler2") /\ NextCall("handler2") = <<"Lock", "cache">>

----------------------------------------------------------------------------
(* Claim about Start and Stop, checked under SpecStop *)

StopReturned == shutdown /\ boot.listener = "closed"

\* a step that hands a connection to a new session
SessionStarts == \E s \in Sessions : sess[s].pc \in {"idle", "closed"} /\ sess'[s].pc = "read"

\* C35 (as stated): once Stop, called while Start is in its accept loop, has
\* returned, the listener is closed and no step hands a connection to a new
\* session.
C35_NoSessionAfterStop ==
    [][StopReturned => (boot'.listener = "closed" /\ ~SessionStarts)]_vars

----------------------------------------------------------------------------
(* Claims about the anti-replay cache, checked under SpecCache *)

Called == lastCall.at # None

SincePrevFresh == lastCall.at - lastCall.prevFresh

\* C1 (as stated): whenever CheckAndAdd(h) returns fresh and h had an earlier
\* fresh result, that earlier result is at least one TTL old, whatever
\* evictions and sweeps happened in between.
C1_NoSecondFreshWithinTtl ==
    (Called /\ lastCall.ret /\ lastCall.prevFresh # None) => SincePrevFresh >= ttl

\* C1 (amended): whenever CheckAndAdd(h) returns fresh and h had an earlier
\* fresh result whose entry was not evicted on overflow since, that earlier
\* result is at least one TTL old; sweeper runs never shorten the window.
C1_NoSecondFreshUnlessEvicted ==
    (Called /\ lastCall.ret /\ lastCall.prevFresh # None /\ ~lastCall.prevEvicted)
        => SincePrevFresh >= ttl

\* C1 witness: a duplicate is reported inside the TTL of a fresh result, after
\* some other entry has been evicted on overflow and after the sweeper's first
\* firing time.
C1_Witness ==
    /\ Called /\ ~lastCall.ret /\ lastCall.prevFresh # None
    /\ SincePrevFresh \in 1..(ttl - 1)
    /\ evicted # {}
    /\ now >= SweepPeriod

\* C2 (as stated): the cache never holds more than maxSize entries.
C2_SizeWithinCap == Cardinality(DOMAIN cache) <= maxSize

\* the number of entries right after the insertion of the last call
SizeAfterInsert == lastCall.sizeBefore + (IF lastCall.prevTs = None THEN 1 ELSE 0)

\* C34 (as stated): a fresh CheckAndAdd whose insertion takes the cache over
\* maxSize evicts exactly one entry, one with the least timestamp of all, and
\* leaves no entry older than the one it evicted.
C34_OverflowEvictsOldest ==
    (Called /\ lastCall.ret /\ SizeAfterInsert > maxSize) =>
        /\ Cardinality(lastCall.victims) = 1
        /\ ~lastCall.olderLeft
        /\ \A k \in DOMAIN cache : \A t \in lastCall.victimTs : t <= cache[k]

\* C39: when CheckAndAdd(h) has returned fresh, h's fingerprint was left in
\* the cache with the timestamp of that call, and the eviction of that very
\* insertion did not take it.
C39_FreshEntryStays ==
    /\ []((Called /\ lastCall.ret) =>
            (lastCall.stored = lastCall.at /\ lastCall.key \notin lastCall.victims))
    /\ [][(lastCall' # lastCall /\ lastCall'.ret) =>
            (lastCall'.key \in DOMAIN cache' /\ cache'[lastCall'.key] = now')]_vars

\* C39 witness: a fresh call at a full cache evicted an older entry and left
\* its own.
C39_EvictedAnOlderOne ==
    /\ Called /\ lastCall.ret /\ lastCall.sizeBefore = maxSize
    /\ Cardinality(lastCall.victims) = 1 /\ lastCall.key \notin lastCall.victims
    /\ lastCall.key \in DOMAIN cache /\ cache[lastCall.key] = lastCall.at
    /\ lastCall.at = now

\* C3: a handshake reported fresh at T and not evicted since is a duplicate at
\* T+299 and fresh at T+301, and the fresh result stores the new timestamp.
C3_TtlBoundary ==
    (Called /\ lastCall.prevFresh # None /\ ~lastCall.prevEvicted) =>
        /\ (SincePrevFresh = ttl - 1 => ~lastCall.ret)
        /\ (SincePrevFresh = ttl + 1 => lastCall.ret /\ lastCall.stored = lastCall.at)

\* C3 witness: fresh again at T+301 after the sweeper has removed the entry.
C3_Witness ==
    /\ Called /\ lastCall.ret /\ lastCall.prevFresh # None /\ ~lastCall.prevEvicted
    /\ SincePrevFresh = ttl + 1
    /\ lastCall.prevTs = None
    /\ lastCall.stored = now

----------------------------------------------------------------------------
(* Claims about sessions, checked under Spec *)

Has(log, e) == \E i \in 1..Len(log) : log[i] = e

Before(log, e, f) == \E i \in 1..Len(log) : log[i] = e /\ \A j \in 1..i : log[j] # f

\* the positions of a session that holds, or has asked for, a peer socket
CheckingOut == {"getconn", "dial", "sendhs"}

\* C4 (as stated): a session that has processed its handshake has had it
\* witnessed first, and a session that reaches the checkout was reported fresh.
C4_WitnessBeforeDerive ==
    \A s \in Sessions :
        /\ Has(sess[s].log, "derive") =>
              \/ Before(sess[s].log, "witness_fresh", "derive")
              \/ Before(sess[s].log, "witness_duplicate", "derive")
        /\ Has(sess[s].log, "checkout") => Before(sess[s].log, "witness_fresh", "checkout")

\* the session repeats a handshake that was reported fresh less than a TTL ago
Repeats(s) == sess[s].call.made /\ sess[s].call.within

\* the session was turned away as a replay and touched no peer
TurnedAway(s) ==
    /\ sess[s].pc = "closed" /\ ~sess[s].call.ret
    /\ sess[s].errs = <<"replay_attack">>
    /\ ~Has(sess[s].log, "checkout") /\ ~Has(sess[s].log, "checkout_fail")
    /\ sess[s].conn = 0

\* the step in which a session is turned away counts one replay and leaves
\* every socket and pool as it was
ReplayStep ==
    \A s \in Sessions :
        (sess[s].pc = "witness" /\ sess'[s].pc = "closed") =>
            /\ errorCount' = Bump(errorCount, "replay_attack")
            /\ UNCHANGED <<socks, idle, active>>

\* C5 (as stated): a session repeating a handshake reported fresh less than a
\* TTL ago is turned away.
C5_RepeatTurnedAway == \A s \in Sessions : Repeats(s) => TurnedAway(s)

\* C5 (amended): a session repeating a handshake reported fresh less than a TTL
\* ago, whose entry was not evicted on overflow since, is turned away: closed,
\* the replay counter one higher, no checkout, no dial, no write to a peer.
C5_RepeatTurnedAwayUnlessEvicted ==
    /\ [](\A s \in Sessions : (Repeats(s) /\ ~sess[s].call.prevEvicted) => TurnedAway(s))
    /\ [][ReplayStep]_vars

\* C5 witness: one handshake only has ever been fresh; the session that sent it
\* first holds its peer socket, the session that repeated it was turned away.
C5_Witness ==
    /\ Cardinality(DOMAIN freshAt) = 1
    /\ errorCount["replay_attack"] = 1
    /\ \E s, t \in Sessions :
        /\ Repeats(s) /\ TurnedAway(s)
        /\ sess[t].pc = "sendhs" /\ sess[t].call.ret /\ socks[sess[t].conn].open

\* the step in which a short read ends a session counts one handshake_read
\* and leaves the cache, the sockets and the pools as they were
ShortReadStep ==
    \A s \in Sessions :
        (sess[s].pc = "read" /\ sess'[s].pc = "closed") =>
            /\ errorCount' = Bump(errorCount, "handshake_read")
            /\ UNCHANGED <<cache, socks, idle, active>>

\* C6: a session whose client delivers fewer than 64 bytes ends closed with
\* handshake_read counted once, without a witness, a checkout or a dial, and
\* with the cache and the pool unchanged.
C6_ShortReadClosed ==
    /\ [](\A s \in Sessions :
            sess[s].in.n \in 0..63 =>
                /\ sess[s].pc = "closed"
                /\ sess[s].errs = <<"handshake_read">>
                /\ sess[s].log = <<"read_fail">>
                /\ ~sess[s].call.made /\ sess[s].conn = 0)
    /\ [][ShortReadStep]_vars

\* C6 witness: a session closed on a 63-byte read while the cache holds an
\* entry and the pool holds an idle socket.
C6_Witness ==
    /\ \E s \in Sessions :
        sess[s].pc = "closed" /\ sess[s].in.n = 63 /\ sess[s].errs = <<"handshake_read">>
    /\ errorCount["handshake_read"] = 1
    /\ cache # EmptyCache
    /\ \E d \in DCs : idle[d] # <<>>

\* the prefixes the specification calls obvious markers
ObviousMarker(head) ==
    \/ head \in {HeadEf8, HeadEe, HeadZero}
    \/ <<head[1], head[2], head[3], head[4]>> \in
            {<<71, 69, 84, 32>>, <<80, 79, 83, 84>>, <<72, 69, 65, 68>>}

\* C7 (as stated): a session whose handshake begins with an obvious marker
\* never checks out a peer socket.
C7_ObviousMarkerRejected ==
    \A s \in Sessions :
        (sess[s].in.n = 64 /\ ObviousMarker(sess[s].in.hs.head)) =>
            sess[s].pc \notin CheckingOut /\ sess[s].conn = 0

\* the transport a tag selects
TagTransport(tag) ==
    CASE tag = TagAbridged -> "TransportTypeAbridged"
      [] tag = TagIntermediate -> "TransportTypeIntermediate"
      [] tag = TagPadded -> "TransportTypePadded"
      [] tag = TagFull -> "TransportTypeFull"
      [] OTHER -> "none"

\* C8 (as stated): a session whose transport tag is not one of the four known
\* tags never checks out a peer socket and is given no transport.
C8_UnknownTransportRejected ==
    \A s \in Sessions :
        (sess[s].in.n = 64 /\ TagTransport(sess[s].in.hs.tag) = "none") =>
            sess[s].pc \notin CheckingOut /\ sess[s].transport = "none"

Abs(x) == IF x < 0 THEN 0 - x ELSE x

\* C9 (as stated): the DC a session checks out is |dc_id| of its handshake
\* when that is in 1..5, and otherwise the priority-1 DC.
C9_CheckoutUsesHandshakeDc ==
    \A s \in Sessions :
        sess[s].pc \in CheckingOut =>
            IF Abs(sess[s].in.hs.dc) \in DCs
            THEN sess[s].dcID = Abs(sess[s].in.hs.dc)
            ELSE sess[s].dcID \in chooseBestDatacenter

----------------------------------------------------------------------------
(* Claim about the session's steps, checked under SpecSimple *)

\* C10 (as stated): a session relays a byte only after the handshake read, the
\* replay check, the derivation, the checkout and the peer handshake's write.
C10_RelayAfterAllSteps ==
    \A s \in Sessions :
        (sess[s].bytesOut > 0 \/ sess[s].bytesIn > 0) =>
            /\ Has(sess[s].log, "read") /\ Has(sess[s].log, "derive")
            /\ Has(sess[s].log, "witness_fresh")
            /\ Has(sess[s].log, "checkout") /\ Has(sess[s].log, "peer_handshake")

\* C26 (as stated): the handshake a session is about to write to its peer was
\* made by the proxy from random bytes, begins with no obvious marker, and
\* selects the padded transport and the session's DC.
C26_PeerHandshakeConstructed ==
    \A s \in Sessions :
        sess[s].pc = "sendhs" =>
            /\ sess[s].processed = "generated"
            /\ \A h \in createMTProtoHandshake :
                    /\ ~ObviousMarker(h.head)
                    /\ h.tag = TagPadded
                    /\ h.dc = sess[s].dcID

\* the preference among the DCs: Singapore, then Amsterdam, then Miami
Preference(dc) == IF dc = 5 THEN 1 ELSE IF dc \in {2, 4} THEN 2 ELSE 3

InPreferenceOrder(tried) ==
    \A i, j \in 1..Len(tried) :
        i < j => (tried[i] # tried[j] /\ Preference(tried[i]) <= Preference(tried[j]))

\* the DCs dialled and found failing
Failed(d) == {d.tried[i] : i \in {k \in 1..Len(d.tried) : ~d.answers[k]}}

CascadeRule(s) ==
    LET d == sess[s].dialled IN
    /\ Len(d.tried) >= 1 /\ Len(d.answers) = Len(d.tried)
    /\ InPreferenceOrder(d.tried)
    /\ IF d.ok
       THEN /\ d.dc = d.tried[Len(d.tried)] /\ d.answers[Len(d.tried)]
            /\ Failed(d) = {d.tried[i] : i \in 1..(Len(d.tried) - 1)}
            /\ \A dc \in DCs : Preference(dc) < Preference(d.dc) => dc \in Failed(d)
            /\ sess[s].pc = "sendhs" /\ sess[s].dcID = d.dc
            /\ sess[s].conn \in 1..Len(socks) /\ socks[sess[s].conn].dc = d.dc
       ELSE /\ Failed(d) = DCs
            /\ sess[s].pc = "closed" /\ sess[s].conn = 0
            /\ sess[s].errs = <<"telegram_error">>
            /\ ~Has(sess[s].log, "peer_handshake")

----------------------------------------------------------------------------
(* Claims about the peer sockets, checked under Spec *)

Sockets == 1..Len(socks)

\* the session holds the peer socket k: it got it from GetConnection and its
\* handler has not returned
Holds(s, k) == sess[s].pc # "closed" /\ sess[s].conn = k

Queued(k) == \E d \in DOMAIN idle : \E i \in 1..Len(idle[d]) : idle[d][i] = k

\* C13 (as stated): once the handler of the session that obtained it has
\* returned, a peer socket is closed.
C13_SocketsClosedOnReturn ==
    \A k \in Sockets : socks[k].open => \E s \in Sessions : Holds(s, k)

\* C14 (as stated): no socket in an idle queue has been written to.
C14_WrittenNeverPooled ==
    \A k \in Sockets : Queued(k) => ~socks[k].written

\* C15: a peer socket is held by at most one session, a socket in an idle
\* queue is held by none, and no socket is queued twice.
C15_SocketExclusive ==
    /\ \A k \in Sockets : \A s, t \in Sessions : (Holds(s, k) /\ Holds(t, k)) => s = t
    /\ \A k \in Sockets : Queued(k) => (socks[k].open /\ \A s \in Sessions : ~Holds(s, k))
    /\ \A d \in DOMAIN idle : \A i, j \in 1..Len(idle[d]) : idle[d][i] = idle[d][j] => i = j

\* C15 witness: a socket that went through the pool once is idle again while a
\* session holds another socket of the same DC.
C15_Witness ==
    \E k, m \in Sockets :
        /\ k # m /\ socks[k].dc = socks[m].dc
        /\ Queued(k) /\ socks[k].probed > 0
        /\ socks[m].open /\ \E s \in Sessions : Holds(s, m)

\* the sessions inside handleConnection
Inside == {s \in Sessions : sess[s].pc \notin {"idle", "closed"}}

\* the sessions that registered and have not returned
InRelay == {s \in Sessions : sess[s].pc = "relay"}

\* C38: connectionsActive counts the sessions inside handleConnection, the
\* registry holds exactly the sessions that registered and have not returned,
\* datacenterConns counts per DC the registered sessions of that DC, and all
\* three are as at the start when no session runs.
C38_GaugesMatchSessions ==
    /\ metrics.active = Cardinality(Inside)
    /\ connections = InRelay
    /\ \A d \in DCs :
           metrics.dcConns[d] = Cardinality({s \in connections : sess[s].dcID = d})
    /\ Inside = {} =>
           (metrics.active = 0 /\ connections = {} /\ metrics.dcConns = [d \in DCs |-> 0])

\* C38 witness: one session registered and relaying, another inside
\* handleConnection before its registration, a third over.
C38_Witness ==
    /\ \E s, t \in Sessions :
        /\ sess[s].pc = "relay" /\ connections = {s} /\ metrics.dcConns[sess[s].dcID] = 1
        /\ sess[t].pc = "sendhs"
    /\ metrics.active = 2
    /\ metrics.total = 3

----------------------------------------------------------------------------
(* Claims about the secret, checked under SpecBoot *)

\* main has dealt with a SECRET that was given to it
ParsedGiven == boot.pc # "start" /\ boot.secretStr # <<>> /\ hexValid(boot.secretStr)

\* the rule for a decoded secret b: the prefix byte decides
PrefixRule(b) ==
    IF b # <<>> /\ b[1] \in {B_ee, B_dd}
    THEN IF Len(b) < KeyLen + 1
         THEN [err |-> TRUE, secret |-> NewSecret]
         ELSE [err |-> FALSE,
               secret |-> [Type |-> IF b[1] = B_ee THEN "SecretFakeTLS" ELSE "SecretSecured",
                           Key |-> SubSeq(b, 2, KeyLen + 1),
                           Host |-> IF b[1] = B_ee THEN SubSeq(b, KeyLen + 2, Len(b))
                                    ELSE <<>>]]
    ELSE IF Len(b) < KeyLen
         THEN [err |-> TRUE, secret |-> NewSecret]
         ELSE [err |-> FALSE, secret |-> [NewSecret EXCEPT !.Key = SubSeq(b, 1, KeyLen)]]

\* C22 (as stated): what parseSecret made of a hexadecimal SECRET is what the
\* prefix rule gives for its bytes (failure included), and the key has 16 bytes.
C22_ParseByPrefix ==
    ParsedGiven =>
        /\ (boot.pc = "fatal") = PrefixRule(hexDecode(boot.secretStr)).err
        /\ boot.secret = PrefixRule(hexDecode(boot.secretStr)).secret
        /\ Len(boot.secret.Key) = KeyLen

\* C23: the wire form logged for a generated secret parses back to that
\* secret: FakeTLS, the same key, the same host.
C23_GeneratedParsesBack ==
    (boot.pc # "start" /\ boot.secretStr = <<>>) =>
        /\ boot.logged = GeneratedWire(boot.secret)
        /\ parseSecret(boot.logged) = [err |-> FALSE, secret |-> boot.secret]

\* C23 witness: a secret was generated for the empty host.
C23_Witness ==
    /\ boot.pc = "configured" /\ boot.secretStr = <<>>
    /\ boot.secret.Type = "SecretFakeTLS" /\ boot.secret.Host = <<>>
    /\ Len(boot.logged) = 2 * (KeyLen + 1)

\* C24 (as stated): the secret in the URL that Start logged parses to the
\* secret the proxy runs with.
C24_PrintedParsesBack ==
    (boot.pc = "listening" /\ boot.printed # <<>>) =>
        parseSecret(boot.printed) = [err |-> FALSE, secret |-> boot.secret]

----------------------------------------------------------------------------
(* Claim about the Obfuscator, checked under SpecObf *)

StreamsOf(o) == <<o.encoder.pos, o.decoder.pos>>

\* no cipher stream of either obfuscator moves back
StreamsStep ==
    obf.on =>
        \A i \in 1..2 : /\ StreamsOf(obf'.a)[i] >= StreamsOf(obf.a)[i]
                         /\ StreamsOf(obf'.b)[i] >= StreamsOf(obf.b)[i]

\* C25: with two obfuscators made from the same key and IV, what Decrypt of
\* the one makes of what Encrypt of the other returned (and Encrypt of what
\* Decrypt returned) is the text put in, byte for byte, however the text and
\* the intermediate bytes are cut into calls; and the streams only move on.
C25_CodecRoundTrip ==
    /\ [](obf.on => (/\ obf.got = SubSeq(obf.x, 1, Len(obf.got))
                     /\ Len(obf.got) + Len(obf.mid) = obf.fed))
    /\ [][StreamsStep]_vars

\* C25 witness: a text of MaxPlain bytes went through Encrypt of the one
\* obfuscator and Decrypt of the other and came out whole.
C25_Witness ==
    /\ obf.on /\ obf.op = "Encrypt"
    /\ Len(obf.x) = MaxPlain /\ obf.got = obf.x
    /\ obf.a.encoder.pos = MaxPlain /\ obf.b.decoder.pos = MaxPlain
    /\ obf.a.decoder.pos = 0 /\ obf.b.encoder.pos = 0

----------------------------------------------------------------------------
(* Claim about the accept loop, checked under Spec *)

\* Config.MaxConnections, 10000 in DefaultConfig, scaled to the session slots
MaxConnections == 1

InFlight == {s \in Sessions : sess[s].pc \notin {"idle", "closed"}}

\* C19 (as stated): the sessions in flight never number more than
\* MaxConnections.
C19_SessionsWithinMax == Cardinality(InFlight) <= MaxConnections

----------------------------------------------------------------------------
(* Claims about the pool, checked under SpecPool *)

\* what a ReturnConnection step of a caller does to the queue and the socket
ReturnStep ==
    \A s \in Sessions :
        (sess[s].pc = "return" /\ sess'[s].pc = "closed") =>
            LET dc == sess[s].dcID
                c  == sess[s].conn
            IN  IF dc \in DOMAIN idle /\ Len(idle[dc]) < maxConn
                THEN idle' = [idle EXCEPT ![dc] = Append(@, c)] /\ socks'[c].open
                ELSE idle' = idle /\ ~socks'[c].open

\* C16: no idle queue is ever longer than maxConn; ReturnConnection queues the
\* socket when there is room and otherwise (queue full, or no pool for the DC)
\* closes it and leaves the queues alone; it can always take its step.
C16_IdleWithinCapacity ==
    /\ [](\A d \in DOMAIN idle : Len(idle[d]) <= maxConn)
    /\ [](\A s \in Sessions : sess[s].pc = "return" => ENABLED PoolReturn(s))
    /\ [][ReturnStep]_vars

\* C16 witness: three sockets were dialled for DC5; one was queued and fills
\* the queue, one was closed by a return to the full queue (active went down by
\* one) and one was closed by a return to a DC without a pool.
C16_Witness ==
    /\ Len(idle[5]) = maxConn
    /\ active[5] = maxConn + 1
    /\ Cardinality({k \in Sockets : ~socks[k].open /\ socks[k].dc = 5}) = 2
    /\ \A s \in Sessions : sess[s].pc = "closed"

\* C30 (as stated): GetConnection goes on to dial in place of a socket it took
\* from the idle queue only when its probe found the socket at EOF or in
\* error; a probe that found no bytes pending hands the socket out.
C30_SilentSocketHandedOut ==
    \A s \in Sessions : sess[s].pc = "dial" => sess[s].probeErr # "timeout"

\* C31 (as stated): no byte of the inbound stream of a socket that
\* GetConnection handed out has been taken by a probe.
C31_ProbeTakesNoByte ==
    \A s \in Sessions :
        (sess[s].pc = "sendhs" /\ sess[s].conn \in Sockets) =>
            socks[sess[s].conn].probed = 0

\* the sessions that hold a socket of DC d taken from GetConnection
Holders(d) ==
    {s \in Sessions : /\ sess[s].pc \in {"sendhs", "relay", "return"}
                      /\ sess[s].conn \in Sockets
                      /\ socks[sess[s].conn].dc = d}

\* a step that dials a new socket for DC d with success
DialledFor(d) ==
    /\ Len(socks') = Len(socks) + 1
    /\ socks'[Len(socks')].dc = d /\ socks'[Len(socks')].open
    /\ \E s \in Sessions : sess'[s].conn = Len(socks') /\ sess'[s].dialled.ok

\* a step in which a socket returned for DC d is closed at a full queue
ClosedAtFullQueue(d) ==
    /\ Len(idle[d]) = maxConn /\ idle' = idle
    /\ \E s \in Sessions :
        /\ s \in Holders(d) /\ sess[s].dcID = d /\ sess'[s].pc = "closed"
        /\ socks[sess[s].conn].open /\ ~socks'[sess[s].conn].open

\* C40: the active count of a DC's pool is never negative and never below the
\* number of that DC's sockets idle in the queue or held by a session; it
\* goes up by one only in a step that dials with success, and down by one
\* only in a step that closes a returned socket at a full queue.
C40_ActiveCoversSockets ==
    /\ [](\A d \in DCs : active[d] >= 0 /\ active[d] >= Len(idle[d]) + Cardinality(Holders(d)))
    /\ [][\A d \in DCs :
            /\ active'[d] > active[d] => (active'[d] = active[d] + 1 /\ DialledFor(d))
            /\ active'[d] < active[d] => (active'[d] = active[d] - 1 /\ ClosedAtFullQueue(d))
            /\ DialledFor(d) => active'[d] = active[d] + 1]_vars

\* C40 witness: after a return to a full queue took the count down and a dead
\* idle socket was closed and replaced by a dial, the count is above the one
\* socket that is left.
C40_CountAboveSockets ==
    /\ active[5] = 2 /\ idle[5] = <<>>
    /\ Cardinality(Holders(5)) = 1
    /\ Cardinality({k \in Sockets : ~socks[k].open /\ socks[k].dc = 5}) = 2
    /\ \E s \in Sessions : sess[s].pc = "sendhs" /\ sess[s].probeErr = "none"
                              /\ sess[s].dialled.ok /\ sess[s].conn = 3

----------------------------------------------------------------------------
(* Claims about the relay, checked under SpecRelay *)

\* C11 (as stated): a session that ended on an error counted exactly one error
\* label, and one that ended on a relay read or write error counted relay_io.
C11_ErrorCountedOnce ==
    \A s \in Sessions :
        sess[s].pc = "closed" =>
            /\ Len(sess[s].errs) <= 1
            /\ wire[s].ioErr => sess[s].errs = <<"relay_io">>

\* C27 (as stated): a session whose client began with a TLS 1.2 handshake
\* record has written its response, a handshake record first, to the client
\* by the time it checks out a peer.
C27_HelloAnsweredBeforeCheckout ==
    \A s \in RelaySessions :
        (sess[s].pc \in CheckingOut /\ IsTLSHello(sess[s].in.hs)) =>
            /\ wire[s].out["t2c"] # <<>>
            /\ wire[s].out["t2c"][1] = TLSHandshakeType

\* the declared lengths of the complete records at the start of bytes
RECURSIVE RecordLengths(_)
RecordLengths(bytes) ==
    IF Len(bytes) < 5 THEN <<>>
    ELSE LET n == 256 * bytes[4] + bytes[5] IN
         IF Len(bytes) < 5 + n THEN <<n>>
         ELSE <<n>> \o RecordLengths(SubSeq(bytes, 6 + n, Len(bytes)))

\* C29 (as stated): no record written to the client of a FakeTLS session
\* carries more than MaxRecordPayload bytes.
C29_RecordsWithinLimit ==
    \A s \in RelaySessions :
        secretType = "SecretFakeTLS" =>
            \A i \in 1..Len(RecordLengths(wire[s].out["t2c"])) :
                RecordLengths(wire[s].out["t2c"])[i] <= MaxRecordPayload

\* the session has not reached relayConnections: it is on its way there, or
\* its handler returned on one of the errors it counts
BeforeRelay(s) ==
    \/ sess[s].pc \in {"read", "witness", "getconn", "dial", "sendhs"}
    \/ sess[s].pc = "closed" /\ sess[s].errs # <<>>

\* C21: a session that fails before relaying has written no byte to its
\* client socket.
C21_NothingWrittenBeforeRelay ==
    \A s \in RelaySessions : BeforeRelay(s) => wire[s].out["t2c"] = <<>>

\* C21 witness: a session was turned away after its handshake had been
\* processed (the write of the peer handshake failed) and its client got
\* nothing.
C21_Witness ==
    \E s \in RelaySessions :
        /\ sess[s].pc = "closed" /\ sess[s].errs = <<"telegram_handshake">>
        /\ Has(sess[s].log, "derive")
        /\ wire[s].out["t2c"] = <<>>

IsPrefix(a, b) == Len(a) <= Len(b) /\ a = SubSeq(b, 1, Len(a))

\* the payloads of the complete ApplicationData records at the start of bytes
RECURSIVE Payloads(_)
Payloads(bytes) ==
    IF Len(bytes) < 5 THEN <<>>
    ELSE LET n == 256 * bytes[4] + bytes[5] IN
         IF Len(bytes) < 5 + n THEN <<>>
         ELSE SubSeq(bytes, 6, 5 + n) \o Payloads(SubSeq(bytes, 6 + n, Len(bytes)))

\* the bytes of the source's stream that the pump has taken from its socket
Taken(s, d) == SubSeq(Stream(d), 1, wire[s].sent[d] - Len(wire[s].inbuf[d]))

\* the payload that those bytes carry: the client frames its payload in records
\* with a FakeTLS secret
PayloadRead(s, d) ==
    IF secretType = "SecretFakeTLS" /\ d = "c2t" THEN Payloads(Taken(s, d)) ELSE Taken(s, d)

\* the payload that the destination got: the client gets records with a
\* FakeTLS secret
PayloadWritten(s, d) ==
    IF secretType = "SecretFakeTLS" /\ d = "t2c" THEN Payloads(wire[s].out[d])
    ELSE wire[s].out[d]

\* C17 (as stated): in each direction the payload written is a prefix of the
\* payload read, and all of it while the pump runs, however the stream was
\* split into reads.
C17_PayloadPreserved ==
    \A s \in RelaySessions : \A d \in Dirs :
        /\ IsPrefix(PayloadWritten(s, d), PayloadRead(s, d))
        /\ PumpRuns(s, d) => PayloadWritten(s, d) = PayloadRead(s, d)

\* the relay writes that added to the counters of the session
CountersMatch(s) ==
    sess[s].pc = "relay" => sess[s].bytesIn + sess[s].bytesOut = wire[s].okWrites

\* the counters of a session that keeps relaying do not go down, and an
\* iteration whose write failed leaves them as they were
CountersStep ==
    \A s \in RelaySessions :
        (sess[s].pc = "relay" /\ sess'[s].pc = "relay") =>
            /\ sess'[s].bytesIn >= sess[s].bytesIn
            /\ sess'[s].bytesOut >= sess[s].bytesOut
            /\ wire'[s].okWrites = wire[s].okWrites =>
                    (sess'[s].bytesIn = sess[s].bytesIn /\ sess'[s].bytesOut = sess[s].bytesOut)

\* C18: bytesIn + bytesOut of a session is the sum of the lengths of the relay
\* writes that succeeded on its two pumps; a failed write adds nothing and
\* neither counter decreases.
C18_CountersAreWrites ==
    /\ [](\A s \in RelaySessions : CountersMatch(s))
    /\ [][CountersStep]_vars

\* C18 witness: both counters have counted writes, and the client-to-Telegram
\* pump has stopped on a failure with payload it had read and not written.
C18_Witness ==
    \E s \in RelaySessions :
        /\ sess[s].pc = "relay" /\ sess[s].bytesIn > 0 /\ sess[s].bytesOut > 0
        /\ sess[s].c2t = "stop" /\ wire[s].ioErr
        /\ Len(PayloadRead(s, "c2t")) > Len(wire[s].out["c2t"])

(* Claim about an oversized record, checked under SpecFrame *)

\* C28 (as stated): once the pump has taken bytes of the client's oversized
\* record, nothing of it is written to the peer, and the session ends with the
\* faketls_frame error.
C28_OversizedRecordRefused ==
    \A s \in RelaySessions :
        (wire[s].sent["c2t"] > 0 /\ wire[s].inbuf["c2t"] = <<>>) =>
            /\ wire[s].out["c2t"] = <<>>
            /\ sess[s].pc = "closed" => sess[s].errs = <<"faketls_frame">>

(* Claims about how sessions end, checked under SpecRelayFair *)

OnePumpStopped(s) ==
    sess[s].pc = "relay" /\ (sess[s].c2t = "stop" \/ sess[s].t2c = "stop")

\* C12 (as stated): once one pump of a session has stopped, the other pump
\* stops too and the session reaches Closed, whatever the remote ends do.
C12_OtherPumpStops ==
    \A s \in RelaySessions : OnePumpStopped(s) ~> (sess[s].pc = "closed")

\* C20 (as stated): once Stop has run, every session closes and the
\* connections_active gauge is back at 0.
C20_StopClosesSessions ==
    shutdown ~> (InFlight = {} /\ metrics.active = 0)

====
